---- MODULE Spec2Model ----
(***************************************************************************)
(* Query classification, outcome tracking and analysis of the product      *)
(* analytics agent (MixpanelMCP / ProductAnalyticsAgent) over the shipped  *)
(* mock business data.                                                     *)
(***************************************************************************)
EXTENDS Integers, Sequences, FiniteSets, Bags, TLC

(***************************************************************************)
(* JavaScript values.  A value is a tagged record; an object keeps its     *)
(* entries as a sequence of <<key, value>> pairs in insertion order.       *)
(***************************************************************************)
Str(s) == [t |-> "str", s |-> s]
Num(m, e) == [t |-> "num", m |-> m, e |-> e]    \* the number m / 10^e
Bool(b) == [t |-> "bool", b |-> b]
Null == [t |-> "null"]
Undefined == [t |-> "undefined"]
Arr(items) == [t |-> "arr", items |-> items]
Obj(entries) == [t |-> "obj", entries |-> entries]

(***************************************************************************)
(* String primitives of the runtime, on strings as character sequences.    *)
(***************************************************************************)
UpperCaseLetters == "ABCDEFGHIJKLMNOPQRSTUVWXYZ"
LowerCaseLetters == "abcdefghijklmnopqrstuvwxyz"
DecimalDigits == "0123456789"

charAt(s, i) == SubSeq(s, i, i)

\* String.prototype.includes: t occurs in s as a contiguous substring
\* (the empty string occurs in every string).
includes(s, t) ==
    \E i \in 1..(Len(s) - Len(t) + 1) : SubSeq(s, i, i + Len(t) - 1) = t

toLowerChar(c) ==
    IF \E j \in 1..Len(UpperCaseLetters) : charAt(UpperCaseLetters, j) = c
    THEN charAt(LowerCaseLetters,
                CHOOSE j \in 1..Len(UpperCaseLetters) : charAt(UpperCaseLetters, j) = c)
    ELSE c

RECURSIVE toLowerCase(_)
\* String.prototype.toLowerCase
toLowerCase(s) ==
    IF Len(s) = 0 THEN ""
    ELSE IF Len(s) = 1 THEN toLowerChar(s)
    ELSE toLowerCase(SubSeq(s, 1, Len(s) \div 2))
         \o toLowerCase(SubSeq(s, (Len(s) \div 2) + 1, Len(s)))

RECURSIVE splitFrom(_, _, _)
splitFrom(s, sep, cur) ==
    IF Len(s) = 0 THEN <<cur>>
    ELSE IF charAt(s, 1) = sep
         THEN <<cur>> \o splitFrom(SubSeq(s, 2, Len(s)), sep, "")
         ELSE splitFrom(SubSeq(s, 2, Len(s)), sep, cur \o charAt(s, 1))

\* String.prototype.split with a one-character separator: adjacent,
\* leading and trailing separators yield empty strings; "" yields <<"">>.
split(s, sep) == splitFrom(s, sep, "")

RECURSIVE NatToString(_)
NatToString(n) ==
    IF n < 10 THEN charAt(DecimalDigits, n + 1)
    ELSE NatToString(n \div 10) \o charAt(DecimalDigits, (n % 10) + 1)

RECURSIVE Pow10(_)
Pow10(e) == IF e = 0 THEN 1 ELSE 10 * Pow10(e - 1)

RECURSIVE FractionDigits(_, _)
\* the e decimal digits of f / 10^e, f < 10^e, leading zeros kept
FractionDigits(f, e) ==
    IF e = 0 THEN ""
    ELSE FractionDigits(f \div 10, e - 1) \o charAt(DecimalDigits, (f % 10) + 1)

RECURSIVE NumberToString(_, _)
\* Number-to-string of the non-negative decimal m / 10^e: the shortest
\* decimal form, without trailing zeros in the fraction (16.60 -> "16.6").
NumberToString(m, e) ==
    IF e > 0 /\ m % 10 = 0 THEN NumberToString(m \div 10, e - 1)
    ELSE IF e = 0 THEN NatToString(m)
    ELSE NatToString(m \div Pow10(e)) \o "." \o FractionDigits(m % Pow10(e), e)

Quote(s) == "\"" \o s \o "\""

RECURSIVE JSONStringify(_)
RECURSIVE JoinItems(_, _)
RECURSIVE JoinEntries(_, _)
JoinItems(items, i) ==
    IF i > Len(items) THEN ""
    ELSE (IF i > 1 THEN "," ELSE "") \o JSONStringify(items[i])
         \o JoinItems(items, i + 1)
JoinEntries(entries, i) ==
    IF i > Len(entries) THEN ""
    ELSE (IF i > 1 THEN "," ELSE "") \o Quote(entries[i][1]) \o ":"
         \o JSONStringify(entries[i][2]) \o JoinEntries(entries, i + 1)
\* JSON.stringify without indentation (no key or string of the data needs
\* escaping)
JSONStringify(v) ==
    CASE v.t = "str" -> Quote(v.s)
      [] v.t = "num" -> NumberToString(v.m, v.e)
      [] v.t = "bool" -> IF v.b THEN "true" ELSE "false"
      [] v.t = "null" -> "null"
      [] v.t = "arr" -> "[" \o JoinItems(v.items, 1) \o "]"
      [] v.t = "obj" -> "{" \o JoinEntries(v.entries, 1) \o "}"

(***************************************************************************)
(* mockData.js: the business data catalog.                                 *)
(***************************************************************************)
user_metrics ==
    Obj(<<
        <<"total_users", Num(45230, 0)>>,
        <<"active_users_30d", Num(18650, 0)>>,
        <<"new_users_30d", Num(2340, 0)>>,
        <<"churned_users_30d", Num(890, 0)>>,
        <<"growth_rate", Num(15, 2)>>,
        <<"avg_session_duration", Num(85, 1)>>,
        <<"user_segments", Obj(<<
            <<"freemium", Num(32450, 0)>>,
            <<"premium", Num(8920, 0)>>,
            <<"enterprise", Num(3860, 0)>> >>)>>,
        <<"geographic_distribution", Obj(<<
            <<"North America", Num(18500, 0)>>,
            <<"Europe", Num(12300, 0)>>,
            <<"Asia Pacific", Num(8900, 0)>>,
            <<"Other", Num(5530, 0)>> >>)>>,
        <<"acquisition_channels", Obj(<<
            <<"organic_search", Num(35, 2)>>,
            <<"paid_ads", Num(25, 2)>>,
            <<"referrals", Num(20, 2)>>,
            <<"social_media", Num(12, 2)>>,
            <<"direct", Num(8, 2)>> >>)>> >>)

revenue_metrics ==
    Obj(<<
        <<"mrr", Num(285000, 0)>>,
        <<"arr", Num(3420000, 0)>>,
        <<"revenue_30d", Num(310000, 0)>>,
        <<"revenue_growth", Num(15, 2)>>,
        <<"avg_revenue_per_user", Num(1660, 2)>>,
        <<"ltv", Num(33200, 2)>>,
        <<"revenue_by_segment", Obj(<<
            <<"freemium", Num(0, 0)>>,
            <<"premium", Num(178000, 0)>>,
            <<"enterprise", Num(132000, 0)>> >>)>>,
        <<"revenue_trends", Obj(<<
            <<"jan", Num(245000, 0)>>,
            <<"feb", Num(258000, 0)>>,
            <<"mar", Num(271000, 0)>>,
            <<"apr", Num(285000, 0)>> >>)>>,
        <<"churn_rate", Num(5, 2)>>,
        <<"expansion_revenue", Num(45000, 0)>> >>)

engagement_metrics ==
    Obj(<<
        <<"daily_active_users", Num(12450, 0)>>,
        <<"weekly_active_users", Num(18650, 0)>>,
        <<"monthly_active_users", Num(35200, 0)>>,
        <<"avg_session_duration", Num(85, 1)>>,
        <<"bounce_rate", Num(32, 2)>>,
        <<"pages_per_session", Num(54, 1)>>,
        <<"sessions_per_user", Num(123, 1)>>,
        <<"top_engaged_features", Arr(<< Str("dashboard"), Str("reports"), Str("analytics") >>)>>,
        <<"engagement_score", Num(78, 1)>>,
        <<"stickiness", Num(35, 2)>>,
        <<"power_users", Num(4200, 0)>> >>)

growth_metrics ==
    Obj(<<
        <<"user_growth_rate", Num(15, 2)>>,
        <<"revenue_growth_rate", Num(18, 2)>>,
        <<"month_over_month", Num(12, 2)>>,
        <<"quarter_over_quarter", Num(35, 2)>>,
        <<"signup_trend", Str("increasing")>>,
        <<"churn_trend", Str("stable")>>,
        <<"net_growth", Num(10, 2)>>,
        <<"growth_drivers", Arr(<< Str("organic_search"), Str("referrals"), Str("product_hunt") >>)>>,
        <<"growth_bottlenecks", Arr(<< Str("onboarding_friction"), Str("pricing_sensitivity") >>)>>,
        <<"viral_coefficient", Num(3, 1)>>,
        <<"payback_period", Num(82, 1)>> >>)

feature_adoption ==
    Obj(<<
        <<"topFeatures", Arr(<<
            Obj(<<
                <<"name", Str("dashboard")>>,
                <<"adoption_rate", Num(89, 2)>>,
                <<"time_to_adopt", Num(12, 1)>>,
                <<"satisfaction", Num(46, 1)>> >>),
            Obj(<<
                <<"name", Str("reports")>>,
                <<"adoption_rate", Num(67, 2)>>,
                <<"time_to_adopt", Num(34, 1)>>,
                <<"satisfaction", Num(42, 1)>> >>),
            Obj(<<
                <<"name", Str("integrations")>>,
                <<"adoption_rate", Num(45, 2)>>,
                <<"time_to_adopt", Num(71, 1)>>,
                <<"satisfaction", Num(44, 1)>> >>),
            Obj(<<
                <<"name", Str("api")>>,
                <<"adoption_rate", Num(23, 2)>>,
                <<"time_to_adopt", Num(125, 1)>>,
                <<"satisfaction", Num(48, 1)>> >>),
            Obj(<<
                <<"name", Str("mobile_app")>>,
                <<"adoption_rate", Num(34, 2)>>,
                <<"time_to_adopt", Num(52, 1)>>,
                <<"satisfaction", Num(39, 1)>> >>) >>)>>,
        <<"underused", Str("integrations")>>,
        <<"fastest_growing", Str("dashboard")>>,
        <<"most_valuable", Str("api")>>,
        <<"feature_requests", Arr(<<
            Obj(<< <<"feature", Str("advanced_filters")>>, <<"votes", Num(234, 0)>> >>),
            Obj(<< <<"feature", Str("team_collaboration")>>, <<"votes", Num(189, 0)>> >>),
            Obj(<< <<"feature", Str("custom_dashboards")>>, <<"votes", Num(156, 0)>> >>) >>)>> >>)

retention_metrics ==
    Obj(<<
        <<"topAction", Str("complete_profile")>>,
        <<"correlationStrength", Num(78, 2)>>,
        <<"retentionLift", Num(32, 1)>>,
        <<"day1_retention", Num(78, 2)>>,
        <<"day7_retention", Num(52, 2)>>,
        <<"day30_retention", Num(28, 2)>>,
        <<"day90_retention", Num(18, 2)>>,
        <<"cohort_retention", Obj(<<
            <<"2024-01", Obj(<<
                <<"month_1", Num(85, 2)>>,
                <<"month_3", Num(65, 2)>>,
                <<"month_6", Num(45, 2)>> >>)>>,
            <<"2024-02", Obj(<<
                <<"month_1", Num(82, 2)>>,
                <<"month_3", Num(68, 2)>>,
                <<"month_6", Num(48, 2)>> >>)>>,
            <<"2024-03", Obj(<<
                <<"month_1", Num(88, 2)>>,
                <<"month_3", Num(71, 2)>>,
                <<"month_6", Null>> >>)>>,
            <<"2024-04", Obj(<< <<"month_1", Num(84, 2)>>, <<"month_3", Null>>, <<"month_6", Null>> >>)>> >>)>>,
        <<"retention_drivers", Arr(<<
            Obj(<< <<"action", Str("complete_profile")>>, <<"impact", Num(32, 1)>> >>),
            Obj(<< <<"action", Str("connect_integration")>>, <<"impact", Num(28, 1)>> >>),
            Obj(<< <<"action", Str("create_first_report")>>, <<"impact", Num(21, 1)>> >>),
            Obj(<< <<"action", Str("invite_team_member")>>, <<"impact", Num(19, 1)>> >>) >>)>> >>)

onboarding_metrics ==
    Obj(<<
        <<"biggest", Str("email_verification")>>,
        <<"dropOffRate", Num(42, 2)>>,
        <<"completion_rate", Num(73, 2)>>,
        <<"avg_time_to_complete", Num(85, 1)>>,
        <<"success_factors", Arr(<< Str("clear_instructions"), Str("quick_verification"), Str("immediate_value") >>)>>,
        <<"onboarding_steps", Arr(<<
            Obj(<<
                <<"step", Str("signup")>>,
                <<"completion", Num(10, 1)>>,
                <<"avg_time", Num(21, 1)>> >>),
            Obj(<<
                <<"step", Str("email_verification")>>,
                <<"completion", Num(58, 2)>>,
                <<"avg_time", Num(152, 1)>> >>),
            Obj(<<
                <<"step", Str("profile_setup")>>,
                <<"completion", Num(48, 2)>>,
                <<"avg_time", Num(43, 1)>> >>),
            Obj(<<
                <<"step", Str("first_action")>>,
                <<"completion", Num(41, 2)>>,
                <<"avg_time", Num(68, 1)>> >>),
            Obj(<<
                <<"step", Str("tutorial_completion")>>,
                <<"completion", Num(35, 2)>>,
                <<"avg_time", Num(89, 1)>> >>) >>)>>,
        <<"drop_off_reasons", Arr(<<
            Obj(<<
                <<"reason", Str("email_verification_delay")>>,
                <<"percentage", Num(35, 2)>> >>),
            Obj(<< <<"reason", Str("complex_setup")>>, <<"percentage", Num(28, 2)>> >>),
            Obj(<< <<"reason", Str("unclear_value_prop")>>, <<"percentage", Num(22, 2)>> >>),
            Obj(<< <<"reason", Str("technical_issues")>>, <<"percentage", Num(15, 2)>> >>) >>)>> >>)

support_metrics ==
    Obj(<<
        <<"open_tickets", Num(245, 0)>>,
        <<"avg_resolution_time", Num(42, 1)>>,
        <<"satisfaction_score", Num(43, 1)>>,
        <<"response_time", Num(8, 1)>>,
        <<"escalation_rate", Num(12, 2)>>,
        <<"top_issues", Arr(<< Str("billing"), Str("technical"), Str("onboarding") >>)>>,
        <<"ticket_categories", Obj(<<
            <<"billing", Num(89, 0)>>,
            <<"technical", Num(156, 0)>>,
            <<"feature_request", Num(34, 0)>>,
            <<"bug_report", Num(67, 0)>>,
            <<"onboarding", Num(45, 0)>> >>)>>,
        <<"support_channels", Obj(<<
            <<"email", Num(45, 2)>>,
            <<"chat", Num(35, 2)>>,
            <<"phone", Num(15, 2)>>,
            <<"self_service", Num(5, 2)>> >>)>>,
        <<"resolution_by_tier", Obj(<< <<"tier1", Num(70, 2)>>, <<"tier2", Num(25, 2)>>, <<"tier3", Num(5, 2)>> >>)>> >>)

conversion_metrics ==
    Obj(<<
        <<"trial_to_paid", Num(28, 2)>>,
        <<"signup_to_activation", Num(72, 2)>>,
        <<"freemium_to_premium", Num(15, 2)>>,
        <<"visitor_to_signup", Num(19, 3)>>,
        <<"conversion_funnel", Obj(<<
            <<"visitors", Num(125000, 0)>>,
            <<"signups", Num(2340, 0)>>,
            <<"activated", Num(1685, 0)>>,
            <<"trial", Num(890, 0)>>,
            <<"paid", Num(249, 0)>> >>)>>,
        <<"conversion_by_source", Obj(<<
            <<"organic_search", Num(31, 2)>>,
            <<"paid_ads", Num(18, 2)>>,
            <<"referrals", Num(42, 2)>>,
            <<"social_media", Num(8, 2)>> >>)>>,
        <<"time_to_convert", Obj(<< <<"trial_to_paid", Num(125, 1)>>, <<"freemium_to_premium", Num(452, 1)>> >>)>> >>)

performance_metrics ==
    Obj(<<
        <<"avg_page_load", Num(23, 1)>>,
        <<"api_response_time", Num(145, 0)>>,
        <<"uptime", Num(999, 3)>>,
        <<"error_rate", Num(2, 3)>>,
        <<"performance_score", Num(92, 0)>>,
        <<"core_web_vitals", Obj(<< <<"lcp", Num(18, 1)>>, <<"fid", Num(65, 0)>>, <<"cls", Num(8, 2)>> >>)>>,
        <<"mobile_performance", Num(85, 0)>>,
        <<"desktop_performance", Num(96, 0)>>,
        <<"geographic_performance", Obj(<<
            <<"North America", Num(19, 1)>>,
            <<"Europe", Num(21, 1)>>,
            <<"Asia Pacific", Num(28, 1)>>,
            <<"Other", Num(32, 1)>> >>)>> >>)

competitive_metrics ==
    Obj(<<
        <<"market_share", Num(8, 2)>>,
        <<"competitor_comparison", Obj(<<
            <<"feature_parity", Num(85, 2)>>,
            <<"pricing_competitiveness", Num(72, 2)>>,
            <<"user_satisfaction", Num(91, 2)>> >>)>>,
        <<"win_loss_analysis", Obj(<<
            <<"win_rate", Num(34, 2)>>,
            <<"top_win_reasons", Arr(<< Str("better_ux"), Str("pricing"), Str("customer_support") >>)>>,
            <<"top_loss_reasons", Arr(<<
                Str("missing_features"),
                Str("integration_limitations"),
                Str("enterprise_requirements") >>)>> >>)>> >>)

product_health ==
    Obj(<<
        <<"overall_score", Num(78, 0)>>,
        <<"user_satisfaction", Num(43, 1)>>,
        <<"nps_score", Num(42, 0)>>,
        <<"product_market_fit", Num(75, 2)>>,
        <<"technical_debt_score", Num(25, 2)>>,
        <<"innovation_index", Num(68, 2)>>,
        <<"time_to_value", Num(32, 1)>> >>)

mockBusinessData ==
    Obj(<<
        <<"user_metrics", user_metrics>>,
        <<"revenue_metrics", revenue_metrics>>,
        <<"engagement_metrics", engagement_metrics>>,
        <<"growth_metrics", growth_metrics>>,
        <<"feature_adoption", feature_adoption>>,
        <<"retention_metrics", retention_metrics>>,
        <<"onboarding_metrics", onboarding_metrics>>,
        <<"support_metrics", support_metrics>>,
        <<"conversion_metrics", conversion_metrics>>,
        <<"performance_metrics", performance_metrics>>,
        <<"competitive_metrics", competitive_metrics>>,
        <<"product_health", product_health>> >>)

(***************************************************************************)
(* Objects: property read, property write and spread.                      *)
(***************************************************************************)
hasOwn(o, k) == \E i \in 1..Len(o.entries) : o.entries[i][1] = k

\* o[k]; undefined when o has no property k
get(o, k) ==
    IF hasOwn(o, k)
    THEN o.entries[CHOOSE i \in 1..Len(o.entries) : o.entries[i][1] = k][2]
    ELSE Undefined

\* o[k] = v: an existing property keeps its position, a new one is appended
setProp(o, k, v) ==
    IF hasOwn(o, k)
    THEN Obj([i \in 1..Len(o.entries) |->
                 IF o.entries[i][1] = k THEN <<k, v>> ELSE o.entries[i]])
    ELSE Obj(Append(o.entries, <<k, v>>))

RECURSIVE spreadFrom(_, _, _)
spreadFrom(o, src, i) ==
    IF i > Len(src.entries) THEN o
    ELSE spreadFrom(setProp(o, src.entries[i][1], src.entries[i][2]), src, i + 1)

\* { ...o, ...src }: the own properties of src are written onto o in order;
\* spreading null or undefined adds nothing
spread(o, src) == IF src.t = "obj" THEN spreadFrom(o, src, 1) ELSE o

\* Object.keys
keys(o) == [i \in 1..Len(o.entries) |-> o.entries[i][1]]

(***************************************************************************)
(* mockData.js: lookup and keyword search.                                 *)
(***************************************************************************)
\* mockBusinessData[category] || null
getDataByCategory(category) ==
    IF hasOwn(mockBusinessData, category) THEN get(mockBusinessData, category)
    ELSE Null

\* JSON.stringify(data).toLowerCase() of every catalog entry, in catalog order
serializedData ==
    [i \in 1..Len(mockBusinessData.entries) |->
        toLowerCase(JSONStringify(mockBusinessData.entries[i][2]))]

\* searchTerms.some(term => category.includes(term) || serialized.includes(term))
termMatches(searchTerms, i) ==
    \E j \in 1..Len(searchTerms) :
        \/ includes(mockBusinessData.entries[i][1], searchTerms[j])
        \/ includes(serializedData[i], searchTerms[j])

RECURSIVE searchFrom(_, _, _)
searchFrom(searchTerms, i, results) ==
    IF i > Len(mockBusinessData.entries) THEN results
    ELSE searchFrom(searchTerms, i + 1,
                    IF termMatches(searchTerms, i)
                    THEN setProp(results, mockBusinessData.entries[i][1],
                                 mockBusinessData.entries[i][2])
                    ELSE results)

\* the catalog entries matched by any term of the keywords, in catalog order
searchData(keywords) ==
    searchFrom(split(toLowerCase(keywords), " "), 1, Obj(<< >>))

(***************************************************************************)
(* MixpanelMCP.processNaturalLanguageQuery                                 *)
(***************************************************************************)
helpMessage ==
    "I can help you analyze user behavior, revenue, engagement, growth, features, retention, onboarding, support, conversions, performance, and competitive metrics. Try asking more specific questions!"

\* the generic response with one suggestion missing
generalResponseSeven ==
    Obj(<< <<"type", Str("general_response")>>,
           <<"message", Str(helpMessage)>>,
           <<"suggestions", Arr(<< Str("How many users do we have?"),
                                   Str("What is our monthly revenue?"),
                                   Str("Which features are most popular?"),
                                   Str("What drives user retention?"),
                                   Str("Where do users drop off?"),
                                   Str("How is our growth trending?"),
                                   Str("What is our NPS score?") >>)>> >>)

generalResponse ==
    Obj(<< <<"type", Str("general_response")>>,
           <<"message", Str(helpMessage)>>,
           <<"suggestions", Arr(<< Str("How many users do we have?"),
                                   Str("What is our monthly revenue?"),
                                   Str("Which features are most popular?"),
                                   Str("What drives user retention?"),
                                   Str("Where do users drop off?"),
                                   Str("How is our growth trending?"),
                                   Str("What is our NPS score?"),
                                   Str("How do we compare to competitors?") >>)>> >>)

\* { type: category, ...getDataByCategory(category) }
categoryResult(category) ==
    spread(Obj(<< <<"type", Str(category)>> >>), getDataByCategory(category))

\* the search result built from the last match instead of the first
searchResultLast(searchResults) ==
    setProp(spread(Obj(<< <<"type", Str(keys(searchResults)[Len(keys(searchResults))])>> >>),
                   searchResults.entries[Len(searchResults.entries)][2]),
            "search_matched", Bool(TRUE))

\* { type: firstCategory, ...data, search_matched: true }
searchResult(searchResults) ==
    setProp(spread(Obj(<< <<"type", Str(keys(searchResults)[1])>> >>),
                   searchResults.entries[1][2]),
            "search_matched", Bool(TRUE))

\* the keyword tests of the rule chain, on the lower-cased question
userCountQuestion(lowerQuery) ==
    \/ includes(lowerQuery, "how many users") \/ includes(lowerQuery, "user count")
    \/ includes(lowerQuery, "total users")
revenueQuestion(lowerQuery) ==
    \/ includes(lowerQuery, "revenue") \/ includes(lowerQuery, "mrr")
    \/ includes(lowerQuery, "money") \/ includes(lowerQuery, "income")
engagementQuestion(lowerQuery) ==
    \/ includes(lowerQuery, "engagement") \/ includes(lowerQuery, "active")
    \/ includes(lowerQuery, "usage")
growthQuestion(lowerQuery) ==
    \/ includes(lowerQuery, "growth") \/ includes(lowerQuery, "growing")
    \/ includes(lowerQuery, "trend")
featureAdoptionQuestionEither(lowerQuery) ==
    includes(lowerQuery, "features") \/ includes(lowerQuery, "adoption")
featureAdoptionQuestion(lowerQuery) ==
    includes(lowerQuery, "features") /\ includes(lowerQuery, "adoption")
retentionQuestion(lowerQuery) ==
    \/ includes(lowerQuery, "retention") \/ includes(lowerQuery, "stay")
    \/ includes(lowerQuery, "return")
onboardingQuestion(lowerQuery) ==
    \/ includes(lowerQuery, "drop") \/ includes(lowerQuery, "abandon")
    \/ includes(lowerQuery, "onboarding") \/ includes(lowerQuery, "leave")
supportQuestion(lowerQuery) ==
    \/ includes(lowerQuery, "support") \/ includes(lowerQuery, "help")
    \/ includes(lowerQuery, "tickets") \/ includes(lowerQuery, "issues")
conversionQuestion(lowerQuery) ==
    \/ includes(lowerQuery, "convert") \/ includes(lowerQuery, "upgrade")
    \/ includes(lowerQuery, "paid") \/ includes(lowerQuery, "trial")
performanceQuestion(lowerQuery) ==
    \/ includes(lowerQuery, "performance") \/ includes(lowerQuery, "speed")
    \/ includes(lowerQuery, "slow") \/ includes(lowerQuery, "load")
competitiveQuestion(lowerQuery) ==
    \/ includes(lowerQuery, "competitor") \/ includes(lowerQuery, "market")
    \/ includes(lowerQuery, "competitive")
productHealthQuestion(lowerQuery) ==
    \/ includes(lowerQuery, "health") \/ includes(lowerQuery, "nps")
    \/ includes(lowerQuery, "satisfaction")

\* the rule chain with the revenue test moved in front of the user-count test
processNaturalLanguageQueryRevenueFirst(query) ==
    LET lowerQuery == toLowerCase(query)
        searchResults == searchData(query)
    IN  IF revenueQuestion(lowerQuery) THEN categoryResult("revenue_metrics")
        ELSE IF userCountQuestion(lowerQuery) THEN categoryResult("user_metrics")
        ELSE IF engagementQuestion(lowerQuery) THEN categoryResult("engagement_metrics")
        ELSE IF growthQuestion(lowerQuery) THEN categoryResult("growth_metrics")
        ELSE IF featureAdoptionQuestion(lowerQuery) THEN categoryResult("feature_adoption")
        ELSE IF retentionQuestion(lowerQuery) THEN categoryResult("retention_metrics")
        ELSE IF onboardingQuestion(lowerQuery) THEN categoryResult("onboarding_metrics")
        ELSE IF supportQuestion(lowerQuery) THEN categoryResult("support_metrics")
        ELSE IF conversionQuestion(lowerQuery) THEN categoryResult("conversion_metrics")
        ELSE IF performanceQuestion(lowerQuery) THEN categoryResult("performance_metrics")
        ELSE IF competitiveQuestion(lowerQuery) THEN categoryResult("competitive_metrics")
        ELSE IF productHealthQuestion(lowerQuery) THEN categoryResult("product_health")
        ELSE IF Len(keys(searchResults)) > 0 THEN searchResult(searchResults)
        ELSE generalResponse

\* the first test that holds selects the category; then the catalog search;
\* then the generic response
processNaturalLanguageQuery(query) ==
    LET lowerQuery == toLowerCase(query)
        searchResults == searchData(query)
    IN  IF userCountQuestion(lowerQuery) THEN categoryResult("user_metrics")
        ELSE IF revenueQuestion(lowerQuery) THEN categoryResult("revenue_metrics")
        ELSE IF engagementQuestion(lowerQuery) THEN categoryResult("engagement_metrics")
        ELSE IF growthQuestion(lowerQuery) THEN categoryResult("growth_metrics")
        ELSE IF featureAdoptionQuestion(lowerQuery) THEN categoryResult("feature_adoption")
        ELSE IF retentionQuestion(lowerQuery) THEN categoryResult("retention_metrics")
        ELSE IF onboardingQuestion(lowerQuery) THEN categoryResult("onboarding_metrics")
        ELSE IF supportQuestion(lowerQuery) THEN categoryResult("support_metrics")
        ELSE IF conversionQuestion(lowerQuery) THEN categoryResult("conversion_metrics")
        ELSE IF performanceQuestion(lowerQuery) THEN categoryResult("performance_metrics")
        ELSE IF competitiveQuestion(lowerQuery) THEN categoryResult("competitive_metrics")
        ELSE IF productHealthQuestion(lowerQuery) THEN categoryResult("product_health")
        ELSE IF Len(keys(searchResults)) > 0 THEN searchResult(searchResults)
        ELSE generalResponse

(***************************************************************************)
(* Numbers computed at run time: exact fractions in lowest terms.          *)
(***************************************************************************)
RECURSIVE GCD(_, _)
GCD(a, b) == IF b = 0 THEN a ELSE GCD(b, a % b)

\* the number n / d, d > 0, n >= 0
Frac(n, d) == [n |-> n \div GCD(n, d), d |-> d \div GCD(n, d)]
\* the decimal literal m / 10^e
Dec(m, e) == Frac(m, Pow10(e))

MathMin(a, b) == IF a.n * b.d <= b.n * a.d THEN a ELSE b
MathMax(a, b) == IF a.n * b.d >= b.n * a.d THEN a ELSE b

\* truthiness of a value in a condition
truthy(v) ==
    CASE v.t = "str" -> v.s # ""
      [] v.t = "num" -> v.m # 0
      [] v.t = "bool" -> v.b
      [] v.t = "null" -> FALSE
      [] v.t = "undefined" -> FALSE
      [] OTHER -> TRUE

typeof(v) ==
    CASE v.t = "str" -> "string"
      [] v.t = "num" -> "number"
      [] v.t = "bool" -> "boolean"
      [] v.t = "undefined" -> "undefined"
      [] OTHER -> "object"

(***************************************************************************)
(* ProductAnalyticsAgent: outcome tracking.  The pattern map is a function *)
(* from the identifiers that have a pattern to their counters.             *)
(***************************************************************************)
newPattern == [suggested |-> 0, implemented |-> 0, successful |-> 0]

\* this.patterns.get(insightId) || { suggested: 0, implemented: 0, successful: 0 }
patternOrNew(pats, insightId) ==
    IF insightId \in DOMAIN pats THEN pats[insightId] ELSE newPattern

\* a set that replaces the whole map by the one entry
mapSetOnly(pats, insightId, pattern) == [k \in {insightId} |-> pattern]

\* this.patterns.set(insightId, pattern)
mapSet(pats, insightId, pattern) ==
    [k \in DOMAIN pats \cup {insightId} |->
        IF k = insightId THEN pattern ELSE pats[k]]

\* a clamp that lets the success rate through unchanged
updateConfidenceUnclamped(pats, insightId) ==
    IF insightId \notin DOMAIN pats \/ pats[insightId].implemented = 0
    THEN Dec(5, 1)
    ELSE Frac(pats[insightId].successful, pats[insightId].implemented)

updateConfidence(pats, insightId) ==
    IF insightId \notin DOMAIN pats \/ pats[insightId].implemented = 0
    THEN Dec(5, 1)
    ELSE LET successRate ==
                 Frac(pats[insightId].successful, pats[insightId].implemented)
         IN  MathMin(Dec(95, 2), MathMax(Dec(1, 1), successRate))

\* the counters with successful++ outside the implemented branch
countedOutcomeFlat(pattern, implemented, result) ==
    [suggested |-> pattern.suggested + 1,
     implemented |-> pattern.implemented + (IF truthy(implemented) THEN 1 ELSE 0),
     successful |-> pattern.successful
                    + (IF truthy(get(result, "improved")) THEN 1 ELSE 0)]

\* the counters with implemented++ outside the implemented branch
countedOutcomeAlways(pattern, implemented, result) ==
    [suggested |-> pattern.suggested + 1,
     implemented |-> pattern.implemented + 1,
     successful |-> pattern.successful
                    + (IF truthy(implemented) /\ truthy(get(result, "improved"))
                       THEN 1 ELSE 0)]

\* pattern.suggested++; if (implemented) { pattern.implemented++;
\*   if (result.improved) pattern.successful++ }
countedOutcome(pattern, implemented, result) ==
    [suggested |-> pattern.suggested + 1,
     implemented |-> pattern.implemented + (IF truthy(implemented) THEN 1 ELSE 0),
     successful |-> pattern.successful
                    + (IF truthy(implemented) /\ truthy(get(result, "improved"))
                       THEN 1 ELSE 0)]

\* the update that always starts from a fresh pattern
trackedPatternsFresh(pats, insightId, implemented, result) ==
    mapSet(pats, insightId, countedOutcome(newPattern, implemented, result))

\* the pattern map after trackOutcome(insightId, implemented, result)
trackedPatterns(pats, insightId, implemented, result) ==
    mapSet(pats, insightId,
           countedOutcome(patternOrNew(pats, insightId), implemented, result))

\* the value trackOutcome returns: updateConfidence on the updated map
trackOutcome(pats, insightId, implemented, result) ==
    updateConfidence(trackedPatterns(pats, insightId, implemented, result),
                     insightId)

(***************************************************************************)
(* Operators of the language used by the insight code: optional chaining,  *)
(* ||, numeric conversion, relational comparison, toFixed, template        *)
(* strings and Array.prototype.sort.                                       *)
(***************************************************************************)
\* o?.k: undefined when o is null or undefined; .length of arrays and strings
optional(o, k) ==
    CASE o.t = "obj" -> get(o, k)
      [] o.t = "arr" /\ k = "length" -> Num(Len(o.items), 0)
      [] o.t = "str" /\ k = "length" -> Num(Len(o.s), 0)
      [] OTHER -> Undefined

\* a || b
or(a, b) == IF truthy(a) THEN a ELSE b

\* 0 / 0
NaN == [n |-> 0, d |-> 0]
isNaN(x) == x.d = 0

\* numeric conversion of the values the records hold: numbers, booleans,
\* null, undefined and non-numeric strings
toNumber(v) ==
    CASE v.t = "num" -> Dec(v.m, v.e)
      [] v.t = "bool" -> IF v.b THEN Frac(1, 1) ELSE Frac(0, 1)
      [] v.t = "null" -> Frac(0, 1)
      [] v.t = "str" /\ v.s = "" -> Frac(0, 1)
      [] OTHER -> NaN

\* a < b and a > b: false as soon as one side is not a number
lessThan(a, b) ==
    LET x == toNumber(a)
        y == toNumber(b)
    IN  ~isNaN(x) /\ ~isNaN(y) /\ x.n * y.d < y.n * x.d
greaterThan(a, b) == lessThan(b, a)

plus(x, y) ==
    IF isNaN(x) \/ isNaN(y) THEN NaN ELSE Frac(x.n * y.d + y.n * x.d, x.d * y.d)
times(x, y) ==
    IF isNaN(x) \/ isNaN(y) THEN NaN ELSE Frac(x.n * y.n, x.d * y.d)
\* x / n for a count n: 0 / 0 is NaN
dividedBy(x, n) ==
    IF isNaN(x) \/ (n = 0 /\ x.n = 0) THEN NaN ELSE Frac(x.n, x.d * n)

\* a - b on decimals, as a decimal
minus(a, b) ==
    LET e == IF a.e >= b.e THEN a.e ELSE b.e
    IN  Num(a.m * Pow10(e - a.e) - b.m * Pow10(e - b.e), e)

\* Number.prototype.toFixed(digits): the decimal with that many fraction
\* digits nearest to x, the larger one when two are equally near
toFixed(x, digits) ==
    IF isNaN(x) THEN "NaN"
    ELSE LET n == (2 * x.n * Pow10(digits) + x.d) \div (2 * x.d)
         IN  NatToString(n \div Pow10(digits))
             \o (IF digits = 0 THEN ""
                 ELSE "." \o FractionDigits(n % Pow10(digits), digits))

\* ${v} in a template string
templateString(v) ==
    CASE v.t = "str" -> v.s
      [] v.t = "num" -> NumberToString(v.m, v.e)
      [] v.t = "bool" -> IF v.b THEN "true" ELSE "false"
      [] v.t = "null" -> "null"
      [] v.t = "undefined" -> "undefined"
      [] OTHER -> "[object Object]"

\* the comparator (a, b) => a.confidence - b.confidence
byConfidenceAscending(a, b) ==
    LET x == toNumber(get(a, "confidence"))
        y == toNumber(get(b, "confidence"))
    IN  IF x.n * y.d > y.n * x.d THEN 1
        ELSE IF x.n * y.d < y.n * x.d THEN -1 ELSE 0

\* the comparator (a, b) => b.confidence - a.confidence: negative when a
\* goes first, positive when b goes first, 0 when they tie
byConfidenceDescending(a, b) ==
    LET x == toNumber(get(a, "confidence"))
        y == toNumber(get(b, "confidence"))
    IN  IF y.n * x.d > x.n * y.d THEN 1
        ELSE IF y.n * x.d < x.n * y.d THEN -1 ELSE 0

RECURSIVE insertSorted(_, _)
\* x put into the sorted sequence after every element that does not have to
\* follow it
insertSorted(sorted, x) ==
    IF sorted = << >> THEN <<x>>
    ELSE IF byConfidenceDescending(sorted[Len(sorted)], x) <= 0 THEN Append(sorted, x)
    ELSE Append(insertSorted(SubSeq(sorted, 1, Len(sorted) - 1), x), sorted[Len(sorted)])

RECURSIVE sortFrom(_, _, _)
sortFrom(items, i, sorted) ==
    IF i > Len(items) THEN sorted
    ELSE sortFrom(items, i + 1, insertSorted(sorted, items[i]))

\* insights.sort((a, b) => b.confidence - a.confidence): the array after the
\* call; the sort is stable, equal elements keep their relative order
sort(items) == sortFrom(items, 1, << >>)

(***************************************************************************)
(* ProductAnalyticsAgent: synthesis of the full analysis.                  *)
(***************************************************************************)
insight(type, discovery, confidence, recommendation, expectedImpact) ==
    Obj(<< <<"type", Str(type)>>,
           <<"discovery", Str(discovery)>>,
           <<"confidence", confidence>>,
           <<"recommendation", Str(recommendation)>>,
           <<"expectedImpact", Str(expectedImpact)>> >>)

\* insights.reduce((sum, i) => sum + i.confidence, 0)
RECURSIVE reduceConfidence(_, _, _)
reduceConfidence(insights, i, sum) ==
    IF i > Len(insights) THEN sum
    ELSE reduceConfidence(insights, i + 1,
                          plus(sum, toNumber(get(insights[i], "confidence"))))

\* generateExecutiveSummary(insights): the summary it returns and the array
\* it was given as the call leaves it, sort() working in place
generateExecutiveSummary(insights) ==
    LET avgConfidence == dividedBy(reduceConfidence(insights, 1, Frac(0, 1)),
                                   Len(insights))
        sorted == sort(insights)
        topInsight == IF sorted = << >> THEN Undefined ELSE sorted[1]
    IN  [summary |->
             Obj(<< <<"totalInsights", Num(Len(sorted), 0)>>,
                    <<"averageConfidence",
                      Str(toFixed(times(avgConfidence, Frac(100, 1)), 1) \o "%")>>,
                    <<"topRecommendation", optional(topInsight, "recommendation")>>,
                    <<"criticalAction", optional(topInsight, "recommendation")>> >>),
         insights |-> sorted]

\* calculateMetrics with the drop-off rate reported instead of its complement
calculateMetricsDropOff(data) ==
    Obj(<< <<"adoptionHealth",
             or(optional(optional(get(data, "featureAdoption"), "topFeatures"),
                         "length"), Num(0, 0))>>,
           <<"retentionStrength",
             or(optional(get(data, "retentionDrivers"), "correlationStrength"),
                Num(0, 0))>>,
           <<"onboardingEfficiency",
             or(optional(get(data, "dropOffPoints"), "dropOffRate"), Num(0, 0))>> >>)

calculateMetrics(data) ==
    Obj(<< <<"adoptionHealth",
             or(optional(optional(get(data, "featureAdoption"), "topFeatures"),
                         "length"), Num(0, 0))>>,
           <<"retentionStrength",
             or(optional(get(data, "retentionDrivers"), "correlationStrength"),
                Num(0, 0))>>,
           <<"onboardingEfficiency",
             minus(Num(1, 0),
                   or(optional(get(data, "dropOffPoints"), "dropOffRate"),
                      Num(0, 0)))>> >>)

\* the insights synthesizeInsights pushes, in the order of its three rules
pushedInsights(data) ==
    LET retentionDrivers == get(data, "retentionDrivers")
        featureAdoption == get(data, "featureAdoption")
        dropOffPoints == get(data, "dropOffPoints")
        topAction == templateString(optional(retentionDrivers, "topAction"))
        underused == templateString(optional(featureAdoption, "underused"))
        biggest == templateString(optional(dropOffPoints, "biggest"))
    IN  (IF truthy(optional(retentionDrivers, "topAction"))
         THEN <<insight("retention",
                        "Users who " \o topAction \o " retain 3x better",
                        Num(89, 2),
                        "Prompt all users to " \o topAction \o " in first session",
                        "+15% 30-day retention")>>
         ELSE << >>)
        \o (IF truthy(optional(featureAdoption, "underused"))
            THEN <<insight("adoption",
                           "Only 12% use " \o underused
                               \o " but it drives highest engagement",
                           Num(85, 2),
                           "Add tutorial for " \o underused \o " in onboarding",
                           "+23% daily active users")>>
            ELSE << >>)
        \o (IF truthy(optional(dropOffPoints, "biggest"))
            THEN <<insight("onboarding",
                           "42% of users abandon at " \o biggest,
                           Num(92, 2),
                           "Simplify " \o biggest \o " to single tap",
                           "+38% activation rate")>>
            ELSE << >>)

\* synthesizeInsights(data): the returned object holds the very array that
\* generateExecutiveSummary was given, so it shows what the call did to it
synthesizeInsights(data) ==
    LET summarized == generateExecutiveSummary(pushedInsights(data))
    IN  Obj(<< <<"insights", Arr(summarized.insights)>>,
               <<"summary", summarized.summary>>,
               <<"metrics", calculateMetrics(data)>> >>)

\* the three questions of analyzeUserBehavior, in the order it asks them
analysisQuestionsRetentionFirst ==
    << "What actions correlate with 30-day retention?",
       "Which features have the highest adoption in first week?",
       "Where do users drop off in the onboarding flow?" >>

analysisQuestions ==
    << "Which features have the highest adoption in first week?",
       "What actions correlate with 30-day retention?",
       "Where do users drop off in the onboarding flow?" >>

(***************************************************************************)
(* generateInsightsFromResult: the interactive front end's rule table and  *)
(* the copies kept by the REST server and the MCP server.                  *)
(***************************************************************************)
\* (x * 100).toFixed(digits)
percent(v, digits) == toFixed(times(toNumber(v), Frac(100, 1)), digits)

\* what a call does: it returns a value, or a TypeError is thrown
returns(value) == [threw |-> FALSE, value |-> value]
TypeError == [threw |-> TRUE, error |-> "TypeError"]

\* the four properties every pushed insight has
queryInsight(discovery, confidence, recommendation, expectedImpact) ==
    Obj(<< <<"discovery", Str(discovery)>>,
           <<"confidence", confidence>>,
           <<"recommendation", Str(recommendation)>>,
           <<"expectedImpact", Str(expectedImpact)>> >>)

userMetricsCase(result) ==
    IF greaterThan(get(result, "growth_rate"), Num(1, 1))
    THEN <<queryInsight("Strong user growth at "
                            \o percent(get(result, "growth_rate"), 1)
                            \o "% indicates healthy market demand",
                        Num(87, 2),
                        "Invest in user acquisition channels that are working",
                        "+25% user growth acceleration")>>
    ELSE << >>

revenueMetricsCase(result) ==
    IF greaterThan(get(result, "revenue_growth"), Num(1, 1))
    THEN <<queryInsight("Revenue growing at "
                            \o percent(get(result, "revenue_growth"), 1)
                            \o "% shows strong product-market fit",
                        Num(91, 2),
                        "Focus on upselling existing customers to premium tiers",
                        "+20% revenue growth")>>
    ELSE << >>

retentionMetricsCase(result) ==
    IF truthy(get(result, "topAction"))
    THEN <<queryInsight("Users who " \o templateString(get(result, "topAction"))
                            \o " retain "
                            \o templateString(get(result, "retentionLift"))
                            \o "x better",
                        Num(89, 2),
                        "Prompt all users to "
                            \o templateString(get(result, "topAction"))
                            \o " in first session",
                        "+15% 30-day retention")>>
    ELSE << >>

\* the onboarding rule with the threshold generateDataInsights uses
onboardingMetricsCaseAbove35(result) ==
    IF greaterThan(get(result, "dropOffRate"), Num(35, 2))
    THEN <<queryInsight(percent(get(result, "dropOffRate"), 0) \o "% drop-off at "
                            \o templateString(get(result, "biggest"))
                            \o " is limiting activation",
                        Num(92, 2),
                        "Simplify " \o templateString(get(result, "biggest"))
                            \o " to reduce friction",
                        "+38% activation rate")>>
    ELSE << >>

onboardingMetricsCase(result) ==
    IF greaterThan(get(result, "dropOffRate"), Num(3, 1))
    THEN <<queryInsight(percent(get(result, "dropOffRate"), 0) \o "% drop-off at "
                            \o templateString(get(result, "biggest"))
                            \o " is limiting activation",
                        Num(92, 2),
                        "Simplify " \o templateString(get(result, "biggest"))
                            \o " to reduce friction",
                        "+38% activation rate")>>
    ELSE << >>

featureAdoptionCase(result) ==
    IF truthy(get(result, "underused"))
    THEN <<queryInsight(templateString(get(result, "underused"))
                            \o " feature is underutilized but drives engagement",
                        Num(85, 2),
                        "Add tutorial for " \o templateString(get(result, "underused"))
                            \o " in onboarding",
                        "+23% daily active users")>>
    ELSE << >>

productHealthCase(result) ==
    IF lessThan(get(result, "nps_score"), Num(50, 0))
    THEN <<queryInsight("NPS score of " \o templateString(get(result, "nps_score"))
                            \o " indicates room for improvement in user satisfaction",
                        Num(88, 2),
                        "Focus on addressing top user pain points and feature requests",
                        "+15 point NPS improvement")>>
    ELSE << >>

\* result.win_loss_analysis.win_rate is read without optional chaining: the
\* read throws when win_loss_analysis is null or undefined
competitiveMetricsCase(result) ==
    LET win_loss_analysis == get(result, "win_loss_analysis")
    IN  IF win_loss_analysis.t \in {"undefined", "null"} THEN TypeError
        ELSE IF lessThan(optional(win_loss_analysis, "win_rate"), Num(4, 1))
        THEN returns(<<queryInsight(
                 "Win rate of " \o percent(optional(win_loss_analysis, "win_rate"), 1)
                     \o "% suggests competitive disadvantages",
                 Num(86, 2),
                 "Address top loss reasons and strengthen win factors",
                 "+10% win rate improvement")>>)
        ELSE returns(<< >>)

\* InteractiveAnalytics.generateInsightsFromResult
generateInsightsFromResult(result, question) ==
    LET type == get(result, "type")
    IN  CASE type = Str("user_metrics") -> returns(userMetricsCase(result))
          [] type = Str("revenue_metrics") -> returns(revenueMetricsCase(result))
          [] type = Str("retention_metrics") -> returns(retentionMetricsCase(result))
          [] type = Str("onboarding_metrics") -> returns(onboardingMetricsCase(result))
          [] type = Str("feature_adoption") -> returns(featureAdoptionCase(result))
          [] type = Str("product_health") -> returns(productHealthCase(result))
          [] type = Str("competitive_metrics") -> competitiveMetricsCase(result)
          [] OTHER -> returns(<< >>)

\* the properties a server adds to each insight it pushes
withProperties(insights, properties) ==
    [i \in 1..Len(insights) |-> spread(insights[i], Obj(properties))]

\* COOAnalyticsAPI.generateInsightsFromResult: three cases; the id and the
\* timestamp of an insight, both read from the clock, are left out
apiGenerateInsightsFromResult(result, question) ==
    LET type == get(result, "type")
    IN  CASE type = Str("user_metrics") ->
               withProperties(userMetricsCase(result),
                              << <<"type", Str("growth")>>,
                                 <<"generated_from", Str(question)>> >>)
          [] type = Str("revenue_metrics") ->
               withProperties(revenueMetricsCase(result),
                              << <<"type", Str("revenue")>>,
                                 <<"generated_from", Str(question)>> >>)
          [] type = Str("retention_metrics") ->
               withProperties(retentionMetricsCase(result),
                              << <<"type", Str("retention")>>,
                                 <<"generated_from", Str(question)>> >>)
          [] OTHER -> << >>

\* COOAnalyticsMCPServer.generateInsightsFromResult: three cases
mcpGenerateInsightsFromResult(result, question) ==
    LET type == get(result, "type")
    IN  CASE type = Str("user_metrics") ->
               withProperties(userMetricsCase(result), << <<"type", Str("growth")>> >>)
          [] type = Str("revenue_metrics") ->
               withProperties(revenueMetricsCase(result), << <<"type", Str("revenue")>> >>)
          [] type = Str("retention_metrics") ->
               withProperties(retentionMetricsCase(result),
                              << <<"type", Str("retention")>> >>)
          [] OTHER -> << >>

(***************************************************************************)
(* Bounds and inputs.                                                      *)
(***************************************************************************)
MaxWords == 2       \* words of a composed question
MaxReports == 4     \* outcome reports received in one run
MaxInsights == 3    \* insights in a list handed to generateExecutiveSummary
MaxCalls == 2       \* query() calls running side by side
MaxEvents == 3      \* events tracked after construction

\* the trigger keywords of the classification rules, in priority order
RuleCategories ==
    << "user_metrics", "revenue_metrics", "engagement_metrics", "growth_metrics",
       "feature_adoption", "retention_metrics", "onboarding_metrics",
       "support_metrics", "conversion_metrics", "performance_metrics",
       "competitive_metrics", "product_health" >>
RuleTriggers ==
    << <<"how many users", "user count", "total users">>,
       <<"revenue", "mrr", "money", "income">>,
       <<"engagement", "active", "usage">>,
       <<"growth", "growing", "trend">>,
       <<"features", "adoption">>,
       <<"retention", "stay", "return">>,
       <<"drop", "abandon", "onboarding", "leave">>,
       <<"support", "help", "tickets", "issues">>,
       <<"convert", "upgrade", "paid", "trial">>,
       <<"performance", "speed", "slow", "load">>,
       <<"competitor", "market", "competitive">>,
       <<"health", "nps", "satisfaction">> >>
\* the rule that needs all of its triggers; every other rule needs any one
ConjunctiveRule == 5

\* words of composed questions; the empty word makes leading, trailing and
\* doubled spaces, and the empty question
Vocabulary ==
    {"", "Revenue", "how many users", "Features", "adoption", "xyzzy", "plugh",
     "Billing"}

RECURSIVE Phrases(_)
\* 1..k words joined by single spaces
Phrases(k) ==
    IF k = 1 THEN Vocabulary
    ELSE Phrases(k - 1) \cup {p \o " " \o w : p \in Phrases(k - 1), w \in Vocabulary}

\* every trigger keyword alone
KeywordQuestions ==
    UNION {{RuleTriggers[i][j] : j \in 1..Len(RuleTriggers[i])} :
              i \in 1..Len(RuleTriggers)}

\* a firing text of every rule
RuleText(i) ==
    IF i = ConjunctiveRule THEN RuleTriggers[i][1] \o " " \o RuleTriggers[i][2]
    ELSE RuleTriggers[i][1]

\* the lower-priority rule's text first, then the higher-priority one's
PriorityQuestions ==
    {RuleText(j) \o " and " \o RuleText(i) :
        i \in 1..Len(RuleTriggers), j \in 1..Len(RuleTriggers)}

SampleQuestions ==
    {"How many users do we have?", "What is our monthly revenue?",
     "Which features are most popular?", "What drives user retention?",
     "Where do users drop off?", "How is our growth trending?",
     "What is our NPS score?", "How do we compare to competitors?",
     "Which features have the highest adoption in first week?",
     "What actions correlate with 30-day retention?",
     "Where do users drop off in the onboarding flow?",
     "How is user engagement?", "adoption?", "north america", "Dashboard"}

Questions == Phrases(MaxWords) \cup KeywordQuestions \cup PriorityQuestions
             \cup SampleQuestions

InsightIds == {Str("test_insight_1"), Str("insight_2")}
\* request bodies of POST /api/track-outcome: the well-typed ones and
\* bodies with a missing or mistyped field
TrackOutcomeBodies ==
    [insight_id : InsightIds, implemented : {Bool(TRUE), Bool(FALSE)},
     improved : {Bool(TRUE), Bool(FALSE)}]
    \cup {[insight_id |-> Undefined, implemented |-> Bool(TRUE), improved |-> Bool(TRUE)],
          [insight_id |-> Str("insight_2"), implemented |-> Undefined,
           improved |-> Bool(TRUE)],
          [insight_id |-> Str("insight_2"), implemented |-> Bool(TRUE),
           improved |-> Str("yes")]}


\* the questions asked side by side: one answered by a rule and one by the
\* catalog search
ConcurrentQuestions == {"What is our monthly revenue?", "adoption"}
\* the outcome reports interleaved with them
ConcurrentReports ==
    {[insight_id |-> Str("test_insight_1"), implemented |-> Bool(b), improved |-> Bool(b)] :
        b \in BOOLEAN}

\* the questions of the instrumented agent: one per emitting branch of the
\* classifier
TelemetryQuestions == {"What is our monthly revenue?", "adoption", "hello"}

\* request bodies of POST /api/track-outcome: one of the documented types and
\* bodies with one field missing or of another type
ValidationBodies ==
    {[insight_id |-> id, implemented |-> Bool(TRUE), improved |-> Bool(TRUE)] :
        id \in {Str("insight_2"), Undefined, Num(42, 0), Bool(TRUE)}}
    \cup {[insight_id |-> Str("insight_2"), implemented |-> v, improved |-> Bool(TRUE)] :
        v \in {Undefined, Str("yes")}}
    \cup {[insight_id |-> Str("insight_2"), implemented |-> Bool(TRUE), improved |-> v] :
        v \in {Undefined, Num(1, 0)}}

\* a record of one category holding the given properties besides its type
record(category, properties) ==
    Obj(<< <<"type", Str(category)>> >> \o properties)

\* what the three queries of an analysis can bring back: the shipped
\* records, records without the fields the synthesis reads, and no record
FeatureAdoptionRecords ==
    { categoryResult("feature_adoption"),
      record("feature_adoption", << >>),
      record("feature_adoption",
             << <<"topFeatures", Arr(<< >>)>>, <<"underused", Str("")>> >>),
      record("feature_adoption",
             << <<"topFeatures", Arr(<< Str("dashboard"), Str("reports") >>)>> >>),
      Undefined }

RetentionRecords ==
    { categoryResult("retention_metrics"),
      record("retention_metrics", << >>),
      record("retention_metrics",
             << <<"topAction", Str("invite_team_member")>>,
                <<"correlationStrength", Num(0, 0)>> >>),
      record("retention_metrics", << <<"correlationStrength", Num(5, 1)>> >>),
      Undefined }

DropOffRecords ==
    { categoryResult("onboarding_metrics"),
      record("onboarding_metrics", << >>),
      record("onboarding_metrics",
             << <<"biggest", Str("profile_setup")>>, <<"dropOffRate", Num(0, 0)>> >>),
      record("onboarding_metrics", << <<"dropOffRate", Num(32, 2)>> >>),
      Undefined }

SynthesisData ==
    { Obj(<< <<"featureAdoption", f>>, <<"retentionDrivers", r>>,
             <<"dropOffPoints", d>> >>) :
        f \in FeatureAdoptionRecords, r \in RetentionRecords, d \in DropOffRecords }

\* insights a summary can be asked about: the three of the shipped data and
\* a second retention insight, of the same confidence as the first
InsightPool ==
    LET shipped == pushedInsights(
            Obj(<< <<"featureAdoption", categoryResult("feature_adoption")>>,
                   <<"retentionDrivers", categoryResult("retention_metrics")>>,
                   <<"dropOffPoints", categoryResult("onboarding_metrics")>> >>))
        other == pushedInsights(
            Obj(<< <<"retentionDrivers",
                     record("retention_metrics",
                            << <<"topAction", Str("invite_team_member")>> >>)>> >>))
    IN  {shipped[i] : i \in 1..Len(shipped)} \cup {other[1]}

RECURSIVE InsightLists(_)
\* the lists of at most k insights
InsightLists(k) ==
    IF k = 0 THEN {<< >>}
    ELSE InsightLists(k - 1)
         \cup {Append(l, x) : l \in {m \in InsightLists(k - 1) : Len(m) = k - 1},
                              x \in InsightPool}

\* query results handed to generateInsightsFromResult: what the classifier
\* returns on the shipped data, and for each rule of the table records on
\* both sides of its condition and records without its field
ResultRecords ==
    { categoryResult(RuleCategories[i]) : i \in 1..Len(RuleCategories) }
    \cup { generalResponse }
    \cup { record("user_metrics", p) :
             p \in { << >>, << <<"growth_rate", Num(5, 2)>> >>,
                     << <<"growth_rate", Num(1, 1)>> >>,
                     << <<"growth_rate", Num(11, 2)>> >> } }
    \cup { record("revenue_metrics", p) :
             p \in { << >>, << <<"revenue_growth", Num(5, 2)>> >>,
                     << <<"revenue_growth", Num(10, 2)>> >>,
                     << <<"revenue_growth", Num(2, 1)>> >> } }
    \cup { record("retention_metrics", p) :
             p \in { << >>, << <<"topAction", Str("")>> >>,
                     << <<"topAction", Str("invite_team_member")>> >> } }
    \cup { record("onboarding_metrics", p) :
             p \in { << >>, << <<"dropOffRate", Num(2, 1)>> >>,
                     << <<"dropOffRate", Num(3, 1)>> >>,
                     << <<"dropOffRate", Num(32, 2)>>,
                        <<"biggest", Str("profile_setup")>> >> } }
    \cup { record("feature_adoption", p) :
             p \in { << >>, << <<"underused", Str("")>> >>,
                     << <<"underused", Str("api")>> >> } }
    \cup { record("product_health", p) :
             p \in { << >>, << <<"nps_score", Num(50, 0)>> >>,
                     << <<"nps_score", Num(72, 0)>> >>,
                     << <<"nps_score", Num(0, 0)>> >> } }
    \cup { record("competitive_metrics", p) :
             p \in { << >>, << <<"win_loss_analysis", Null>> >>,
                     << <<"win_loss_analysis", Obj(<< >>)>> >>,
                     << <<"win_loss_analysis",
                          Obj(<< <<"win_rate", Num(4, 1)>> >>)>> >>,
                     << <<"win_loss_analysis",
                          Obj(<< <<"win_rate", Num(55, 2)>> >>)>> >>,
                     << <<"win_loss_analysis",
                          Obj(<< <<"win_rate", Num(1, 1)>> >>)>> >> } }
    \cup { record("support_metrics", << <<"growth_rate", Num(9, 1)>> >>),
           Obj(<< >>) }

(***************************************************************************)
(* State.                                                                  *)
(***************************************************************************)
VARIABLES
    activeQuery,       \* the query() call in progress, then its result
    patterns,          \* ProductAnalyticsAgent.patterns
    pendingReports,    \* bag of track-outcome requests not yet dispatched
    awaitingReports,   \* bag of handlers suspended at await trackOutcome(...)
    response,          \* the last track-outcome response sent
    received,          \* number of track-outcome requests received
    issued,            \* per identifier: the reports received, counted by kind
    lastReturned,      \* per identifier: what its last trackOutcome returned
    analysis,          \* the analyzeUserBehavior() call in progress, then its result
    queryLog,          \* the queries of that call: issued and completed, in order
    insightQuery,      \* the query request in progress at a server, then its reply
    call,              \* the last direct call of a synthesis function
    catalog,           \* the module object mockBusinessData of mockData.js
    inflight,          \* the frames of the query() calls running side by side
    operation,         \* the operation of the instrumented agent in progress
    metricsRequest,    \* the get-metrics request in progress, then its reply
    storedInsights,    \* ProductAnalyticsAgent.insights
    insightsRequest,   \* the last get-insights request and its reply
    toolCall,          \* the last MCP tool call and its answer
    events,            \* the event store of the event-tracking agent
    users,             \* its user profiles: userId -> profile
    now,               \* Date.now()
    answer             \* the last analyzeUserBehavior / getMetrics answer

vars == <<activeQuery, patterns, pendingReports, awaitingReports, response, received,
          issued, lastReturned, analysis, queryLog, insightQuery, call,
          catalog, inflight, operation, metricsRequest, storedInsights,
          insightsRequest, toolCall, events, users, now, answer>>

classifierVars == <<activeQuery>>
trackerVars == <<patterns, pendingReports, awaitingReports, response, received,
                 issued, lastReturned>>
synthesisVars == <<analysis, queryLog, insightQuery, call>>
serviceVars == <<catalog, inflight, operation, metricsRequest, storedInsights,
                 insightsRequest, toolCall>>
eventVars == <<events, users, now, answer>>

idleQuery == [pc |-> "idle", question |-> "", result |-> Undefined]
noResponse == [status |-> 0]

(***************************************************************************)
(* agent.js: the event-tracking agent                                      *)
(***************************************************************************)
\* getSessionId(userId): a session id for a user that already has a
\* profile, an anonymous one otherwise
getSessionId(profiles, userId, time, random) ==
    IF truthy(userId) /\ userId \in DOMAIN profiles
    THEN "session_" \o templateString(userId) \o "_" \o NatToString(time)
    ELSE "anonymous_" \o NatToString(time) \o "_" \o random

\* the event object track() builds: the given properties, then timestamp,
\* session_id and user_id written over them
trackedEvent(profiles, eventName, properties, userId, time, random) ==
    [event |-> eventName,
     properties |-> spread(properties,
                       Obj(<< <<"timestamp", Num(time, 0)>>,
                              <<"session_id",
                                Str(getSessionId(profiles, userId, time, random))>>,
                              <<"user_id", userId>> >>)),
     user_id |-> userId,
     timestamp |-> time]

\* the profile a user gets with the first event
newProfile(time) == [firstSeen |-> time, events |-> << >>, posts |-> 0, uploads |-> 0]

\* updateUserProfile without the has() test: the profile starts over with
\* every event
updateUserProfileFresh(profiles, userId, event, time) ==
    LET user == newProfile(time)
        updated ==
            [firstSeen |-> user.firstSeen,
             events |-> Append(user.events, event),
             posts |-> user.posts + (IF event.event = "post_created" THEN 1 ELSE 0),
             uploads |-> user.uploads + (IF event.event = "file_uploaded" THEN 1 ELSE 0),
             lastSeen |-> time]
    IN  [id \in DOMAIN profiles \cup {userId} |->
            IF id = userId THEN updated ELSE profiles[id]]

\* updateUserProfile(userId, event)
updateUserProfile(profiles, userId, event, time) ==
    LET user == IF userId \in DOMAIN profiles THEN profiles[userId] ELSE newProfile(time)
        updated ==
            [firstSeen |-> user.firstSeen,
             events |-> Append(user.events, event),
             posts |-> user.posts + (IF event.event = "post_created" THEN 1 ELSE 0),
             uploads |-> user.uploads + (IF event.event = "file_uploaded" THEN 1 ELSE 0),
             lastSeen |-> time]
    IN  [id \in DOMAIN profiles \cup {userId} |->
            IF id = userId THEN updated ELSE profiles[id]]

\* sendToMixpanel(event): the client's exception is caught and logged
sendToMixpanel(event, clientThrows) == [threw |-> FALSE]

\* the properties trackPost and trackUpload hand to track(), called without
\* additional properties
postProperties(postType) ==
    Obj(<< <<"post_type", Str(postType)>>, <<"content_category", Str("general")>> >>)
uploadProperties(fileType) ==
    Obj(<< <<"file_type", Str(fileType)>>, <<"file_size", Num(0, 0)>>,
           <<"upload_method", Str("direct")>> >>)

\* the properties of the event the constructor tracks
initializedProperties ==
    Obj(<< <<"version", Str("1.0.0")>>,
           <<"tracking_events", Arr(<<Str("post"), Str("upload")>>)>> >>)

\* the event store after construction: trackEvent('analytics_agent_initialized')
\* goes through track() like every other event
constructedEvents(random) ==
    << trackedEvent(<< >>, "analytics_agent_initialized", initializedProperties,
                    Null, 0, random) >>

\* events.filter(e => e.event === eventName).length
RECURSIVE countEvents(_, _)
countEvents(evts, eventName) ==
    IF evts = << >> THEN 0
    ELSE (IF evts[1].event = eventName THEN 1 ELSE 0) + countEvents(Tail(evts), eventName)

\* events.filter(e => e.user_id === userId)
RECURSIVE eventsOf(_, _)
eventsOf(evts, userId) ==
    IF evts = << >> THEN << >>
    ELSE (IF evts[1].user_id = userId THEN <<evts[1]>> ELSE << >>)
         \o eventsOf(Tail(evts), userId)

\* the values of one property of the events of one name, in store order
RECURSIVE propertyValues(_, _, _)
propertyValues(evts, eventName, property) ==
    IF evts = << >> THEN << >>
    ELSE (IF evts[1].event = eventName
          THEN <<get(evts[1].properties, property)>> ELSE << >>)
         \o propertyValues(Tail(evts), eventName, property)

occurrences(values, v) == Cardinality({i \in 1..Len(values) : values[i] = v})

\* the first entry of get...TypeAnalysis: the most frequent value, the one seen
\* first among equals (the sort is stable); undefined on an empty list
topType(values) ==
    IF values = << >> THEN Undefined
    ELSE values[CHOOSE i \in 1..Len(values) :
                    /\ \A j \in 1..Len(values) :
                           occurrences(values, values[j]) <= occurrences(values, values[i])
                    /\ \A j \in 1..(i - 1) :
                           occurrences(values, values[j]) < occurrences(values, values[i])]

eventInsight(type, subject, confidence) ==
    [type |-> type, subject |-> subject, confidence |-> confidence]

\* generateInsights(analysis): the insights in the order they are pushed; of
\* the texts only their variable part is kept
generateInsights(posts, uploads, postTypes, fileTypes) ==
    (IF posts > 0 /\ uploads > 0 /\ posts > 3 * uploads
     THEN <<eventInsight("content_balance", Str(toFixed(Frac(posts, uploads), 1)),
                         Dec(85, 2))>>
     ELSE IF posts > 0 /\ uploads > 0 /\ 2 * posts < uploads
     THEN <<eventInsight("content_balance", Str(toFixed(Frac(uploads, posts), 1)),
                         Dec(85, 2))>>
     ELSE << >>)
    \o (IF postTypes # << >>
        THEN <<eventInsight("content_preference", topType(postTypes), Dec(90, 2))>>
        ELSE << >>)
    \o (IF fileTypes # << >>
        THEN <<eventInsight("upload_preference", topType(fileTypes), Dec(88, 2))>>
        ELSE << >>)
    \o <<eventInsight("timing", Str("peakHour"), Dec(75, 2))>>

\* analyzeUserBehavior(userId): insights, summary and metrics (rawAnalysis is
\* left out)
analyzeUserBehavior(evts, userId) ==
    LET userEvents == IF truthy(userId) THEN eventsOf(evts, userId) ELSE evts
        posts == countEvents(userEvents, "post_created")
        uploads == countEvents(userEvents, "file_uploaded")
        uniqueUsers == Cardinality({userEvents[i].user_id : i \in 1..Len(userEvents)})
        postTypes == propertyValues(userEvents, "post_created", "post_type")
        fileTypes == propertyValues(userEvents, "file_uploaded", "file_type")
    IN  IF Len(userEvents) = 0
        THEN [insights |-> << >>,
              summary |-> [message |-> "No post or upload events tracked yet"],
              metrics |-> [totalEvents |-> 0, uniqueUsers |-> 0, posts |-> 0,
                           uploads |-> 0]]
        ELSE [insights |-> generateInsights(posts, uploads, postTypes, fileTypes),
              summary |->
                  [totalActivity |-> NatToString(Len(userEvents)) \o " total events from "
                                     \o NatToString(uniqueUsers) \o " users",
                   contentBreakdown |-> NatToString(posts) \o " posts, "
                                        \o NatToString(uploads) \o " uploads",
                   topPostType |-> or(topType(postTypes), Str("N/A")),
                   topFileType |-> or(topType(fileTypes), Str("N/A"))],
              metrics |->
                  [totalEvents |-> Len(userEvents), uniqueUsers |-> uniqueUsers,
                   posts |-> posts, uploads |-> uploads,
                   postToUploadRatio |-> IF uploads > 0
                                         THEN toFixed(Frac(posts, uploads), 2)
                                         ELSE "N/A"]]

\* getMetrics()
getMetrics(evts) ==
    [totalEvents |-> Len(evts),
     posts |-> countEvents(evts, "post_created"),
     uploads |-> countEvents(evts, "file_uploaded"),
     uniqueUsers |-> Cardinality({evts[i].user_id : i \in 1..Len(evts)}
                                 \ {v \in {evts[i].user_id : i \in 1..Len(evts)} :
                                       ~truthy(v)})]

\* the random part of an anonymous session id
RandomSuffixes == {"k3j9x0q2m"}

Init ==
    /\ activeQuery = idleQuery
    /\ patterns = << >>
    /\ pendingReports = EmptyBag
    /\ awaitingReports = EmptyBag
    /\ response = noResponse
    /\ received = 0
    /\ issued = << >>
    /\ lastReturned = << >>
    /\ analysis = [pc |-> "idle", results |-> << >>, result |-> Undefined]
    /\ queryLog = << >>
    /\ insightQuery = [pc |-> "idle"]
    /\ call = [fn |-> "none"]
    /\ catalog = mockBusinessData
    /\ inflight = [id \in 1..MaxCalls |-> idleQuery]
    /\ operation = [kind |-> "none", pc |-> "idle"]
    /\ metricsRequest = [pc |-> "idle"]
    /\ storedInsights = << >>
    /\ insightsRequest = [pc |-> "idle"]
    /\ toolCall = [pc |-> "idle", name |-> ""]
    /\ events = constructedEvents(CHOOSE random \in RandomSuffixes : TRUE)
    /\ users = << >>
    /\ now = 0
    /\ answer = [fn |-> "none"]

(***************************************************************************)
(* MixpanelMCP.query                                                       *)
(***************************************************************************)
\* query({ natural_language }) runs up to the simulated processing delay
Query(q) ==
    /\ activeQuery.pc \in {"idle", "returned"}
    /\ activeQuery' = [pc |-> "delay", question |-> q, result |-> Undefined]
    /\ UNCHANGED <<trackerVars, synthesisVars, serviceVars, eventVars>>

\* the delay is over: the question is classified and the result returned
QueryReturns ==
    /\ activeQuery.pc = "delay"
    /\ activeQuery' = [pc |-> "returned", question |-> activeQuery.question,
                       result |-> processNaturalLanguageQuery(activeQuery.question)]
    /\ UNCHANGED <<trackerVars, synthesisVars, serviceVars, eventVars>>

(***************************************************************************)
(* POST /api/track-outcome                                                 *)
(***************************************************************************)
\* the request has the types the endpoint documents
WellTyped(body) ==
    /\ body.insight_id.t = "str"
    /\ body.implemented.t = "bool"
    /\ body.improved.t = "bool"

ReportCounts(body) ==
    [suggested |-> 1,
     implemented |-> IF body.implemented.b THEN 1 ELSE 0,
     successful |-> IF body.implemented.b /\ body.improved.b THEN 1 ELSE 0]

AddCounts(a, b) ==
    [suggested |-> a.suggested + b.suggested,
     implemented |-> a.implemented + b.implemented,
     successful |-> a.successful + b.successful]

\* the message of the 400 answer
requiredFieldsError ==
    "insight_id, implemented (boolean), and improved (boolean) are required"

\* a request arrives and waits for the event loop
ReceiveTrackOutcome(body) ==
    /\ received < MaxReports
    /\ received' = received + 1
    /\ pendingReports' = pendingReports (+) SetToBag({body})
    /\ issued' = IF WellTyped(body)
                 THEN [id \in DOMAIN issued \cup {body.insight_id} |->
                          IF id # body.insight_id THEN issued[id]
                          ELSE IF id \in DOMAIN issued
                               THEN AddCounts(issued[id], ReportCounts(body))
                               ELSE ReportCounts(body)]
                 ELSE issued
    /\ UNCHANGED <<activeQuery, patterns, awaitingReports, response, lastReturned, synthesisVars, serviceVars, eventVars>>

\* the handler runs up to its await: validation, then the whole of
\* trackOutcome
HandleTrackOutcome(body) ==
    /\ BagIn(body, pendingReports)
    /\ pendingReports' = pendingReports (-) SetToBag({body})
    /\ IF \/ ~truthy(body.insight_id)
          \/ typeof(body.implemented) # "boolean"
          \/ typeof(body.improved) # "boolean"
       THEN /\ response' = [status |-> 400, error |-> requiredFieldsError]
            /\ UNCHANGED <<patterns, awaitingReports, lastReturned>>
       ELSE LET result == Obj(<< <<"improved", body.improved>>,
                                 <<"actualImpact", Str("not_specified")>> >>)
                confidence == trackOutcome(patterns, body.insight_id,
                                           body.implemented, result)
            IN  /\ patterns' = trackedPatterns(patterns, body.insight_id,
                                               body.implemented, result)
                /\ awaitingReports' = awaitingReports
                       (+) SetToBag({[insight_id |-> body.insight_id,
                                      confidence |-> confidence]})
                /\ lastReturned' =
                       [id \in DOMAIN lastReturned \cup {body.insight_id} |->
                           IF id = body.insight_id THEN confidence
                           ELSE lastReturned[id]]
                /\ UNCHANGED response
    /\ UNCHANGED <<activeQuery, received, issued, synthesisVars, serviceVars, eventVars>>

\* the handler resumes after the await and sends the response
RespondTrackOutcome(a) ==
    /\ BagIn(a, awaitingReports)
    /\ awaitingReports' = awaitingReports (-) SetToBag({a})
    /\ response' = [status |-> 200, insight_id |-> a.insight_id,
                    new_confidence |-> a.confidence]
    /\ UNCHANGED <<activeQuery, patterns, pendingReports, received, issued, lastReturned, synthesisVars, serviceVars, eventVars>>

\* the counts of one report as trackOutcome reads its arguments
TruthyCounts(args) ==
    [suggested |-> 1,
     implemented |-> IF truthy(args.implemented) THEN 1 ELSE 0,
     successful |-> IF truthy(args.implemented) /\ truthy(args.improved)
                    THEN 1 ELSE 0]

(***************************************************************************)
(* ProductAnalyticsAgent.analyzeUserBehavior                               *)
(***************************************************************************)
\* the call starts and issues its first query
StartAnalysis ==
    /\ analysis.pc \in {"idle", "done"}
    /\ analysis' = [pc |-> "query", results |-> << >>, result |-> Undefined]
    /\ queryLog' = << [event |-> "issued", question |-> analysisQuestions[1]] >>
    /\ UNCHANGED <<activeQuery, trackerVars, insightQuery, call, serviceVars, eventVars>>

\* the awaited query returns; the next one is issued or, after the third,
\* the three results are synthesized and the analysis returned
AnalysisQueryReturns ==
    /\ analysis.pc = "query"
    /\ LET k == Len(analysis.results) + 1
           returned == processNaturalLanguageQuery(analysisQuestions[k])
           results == Append(analysis.results, returned)
           completed == Append(queryLog,
                               [event |-> "completed",
                                question |-> analysisQuestions[k],
                                result |-> returned])
       IN  IF k < Len(analysisQuestions)
           THEN /\ analysis' = [analysis EXCEPT !.results = results]
                /\ queryLog' = Append(completed,
                                      [event |-> "issued",
                                       question |-> analysisQuestions[k + 1]])
           ELSE /\ analysis' =
                       [pc |-> "done", results |-> results,
                        result |-> synthesizeInsights(
                            Obj(<< <<"featureAdoption", results[1]>>,
                                   <<"retentionDrivers", results[2]>>,
                                   <<"dropOffPoints", results[3]>> >>))]
                /\ queryLog' = completed
    /\ UNCHANGED <<activeQuery, trackerVars, insightQuery, call, serviceVars, eventVars>>

(***************************************************************************)
(* MCP tool coo_track_outcome                                              *)
(***************************************************************************)
\* handleTrackOutcome: no validation; the whole of trackOutcome, then the
\* reply
McpTrackOutcome(args) ==
    /\ received < MaxReports
    /\ received' = received + 1
    /\ LET result == Obj(<< <<"improved", args.improved>>,
                            <<"actualImpact", Str("not_specified")>> >>)
           confidence == trackOutcome(patterns, args.insight_id,
                                      args.implemented, result)
       IN  /\ patterns' = trackedPatterns(patterns, args.insight_id,
                                          args.implemented, result)
           /\ response' = [tool |-> "coo_track_outcome",
                           insight_id |-> args.insight_id,
                           new_confidence |-> confidence]
           /\ lastReturned' =
                  [id \in DOMAIN lastReturned \cup {args.insight_id} |->
                      IF id = args.insight_id THEN confidence
                      ELSE lastReturned[id]]
    /\ issued' = [id \in DOMAIN issued \cup {args.insight_id} |->
                     IF id # args.insight_id THEN issued[id]
                     ELSE IF id \in DOMAIN issued
                          THEN AddCounts(issued[id], TruthyCounts(args))
                          ELSE TruthyCounts(args)]
    /\ UNCHANGED <<activeQuery, pendingReports, awaitingReports, analysis, queryLog,
                   insightQuery, call, serviceVars, eventVars>>

(***************************************************************************)
(* POST /api/query and MCP tool coo_query_data                             *)
(***************************************************************************)
\* the request arrives; POST /api/query answers 400 to a missing or empty
\* question, otherwise the handler runs up to await query(...)
InsightQuery(path, question, generate_insights) ==
    /\ insightQuery.pc # "delay"
    /\ insightQuery' =
           IF path = "rest" /\ ~truthy(Str(question))
           THEN [pc |-> "rejected", path |-> path, question |-> question,
                 generate_insights |-> generate_insights, status |-> 400]
           ELSE [pc |-> "delay", path |-> path, question |-> question,
                 generate_insights |-> generate_insights]
    /\ UNCHANGED <<activeQuery, trackerVars, analysis, queryLog, call, serviceVars, eventVars>>

\* the query returns; the insights are generated and the reply sent
InsightQueryReturns ==
    /\ insightQuery.pc = "delay"
    /\ LET question == insightQuery.question
           result == processNaturalLanguageQuery(question)
           insights ==
               IF ~insightQuery.generate_insights THEN << >>
               ELSE IF insightQuery.path = "rest"
                    THEN apiGenerateInsightsFromResult(result, question)
                    ELSE mcpGenerateInsightsFromResult(result, question)
       IN  insightQuery' = [pc |-> "replied", path |-> insightQuery.path,
                            question |-> question,
                            generate_insights |-> insightQuery.generate_insights,
                            data |-> result, insights |-> insights]
    /\ UNCHANGED <<activeQuery, trackerVars, analysis, queryLog, call, serviceVars, eventVars>>

(***************************************************************************)
(* Direct calls of the synthesis functions on given arguments.             *)
(***************************************************************************)
SynthesizeInsights(data) ==
    /\ call' = [fn |-> "synthesizeInsights", input |-> data,
                output |-> synthesizeInsights(data)]
    /\ UNCHANGED <<activeQuery, trackerVars, analysis, queryLog, insightQuery, serviceVars, eventVars>>

GenerateExecutiveSummary(insights) ==
    /\ call' = [fn |-> "generateExecutiveSummary", input |-> insights,
                output |-> generateExecutiveSummary(insights)]
    /\ UNCHANGED <<activeQuery, trackerVars, analysis, queryLog, insightQuery, serviceVars, eventVars>>

GenerateInsightsFromResult(result) ==
    /\ call' = [fn |-> "generateInsightsFromResult", input |-> result,
                output |-> generateInsightsFromResult(result, "")]
    /\ UNCHANGED <<activeQuery, trackerVars, analysis, queryLog, insightQuery, serviceVars, eventVars>>

(***************************************************************************)
(* MixpanelMCP.query: calls running side by side, each suspended at the    *)
(* simulated processing delay                                              *)
(***************************************************************************)
\* a frame shared by the calls: the resumed call would classify the question
\* of the lowest suspended frame
suspendedQuestionShared(frames, id) ==
    frames[CHOOSE i \in DOMAIN frames :
               /\ frames[i].pc = "delay"
               /\ \A j \in DOMAIN frames : frames[j].pc = "delay" => i <= j].question

\* const { natural_language } = options: the question lives in the frame of
\* its own call
suspendedQuestion(frames, id) == frames[id].question

\* call id starts and runs up to the delay
ConcurrentQuery(id, q) ==
    /\ inflight[id].pc \in {"idle", "returned"}
    /\ inflight' = [inflight EXCEPT ![id] =
                       [pc |-> "delay", question |-> q, result |-> Undefined]]
    /\ UNCHANGED <<classifierVars, trackerVars, synthesisVars, catalog, operation,
                   metricsRequest, storedInsights, insightsRequest, toolCall,
                   eventVars>>

\* the delay of call id is over: its question is classified and returned
ConcurrentQueryReturns(id) ==
    /\ inflight[id].pc = "delay"
    /\ inflight' = [inflight EXCEPT ![id] =
                       [pc |-> "returned", question |-> inflight[id].question,
                        result |-> processNaturalLanguageQuery(
                                       suspendedQuestion(inflight, id))]]
    /\ UNCHANGED <<classifierVars, trackerVars, synthesisVars, catalog, operation,
                   metricsRequest, storedInsights, insightsRequest, toolCall,
                   eventVars>>

(***************************************************************************)
(* The instrumented agent: query, analyzeUserBehavior and trackOutcome     *)
(* with their emits to the analytics client                                *)
(***************************************************************************)
\* a trackEvent without the try/catch: the client's exception leaves it
trackEventUncaught(eventName, configured, clientThrows) ==
    [attempts |-> IF configured THEN <<eventName>> ELSE << >>,
     threw |-> configured /\ clientThrows]

\* MixpanelMCP.trackEvent: one call of the client when the project token is
\* configured, none otherwise; an exception of the client is caught and logged
trackEvent(eventName, configured, clientThrows) ==
    [attempts |-> IF configured THEN <<eventName>> ELSE << >>,
     threw |-> FALSE]

\* the emits among eventNames on which an exception leaves trackEvent
thrownAt(eventNames, configured, throws) ==
    {k \in 1..Len(eventNames) :
        trackEvent(eventNames[k], configured, k \in throws).threw}

\* the calls of the client made by the emits eventNames[1..last]
RECURSIVE attemptsUpTo(_, _, _, _)
attemptsUpTo(eventNames, last, configured, throws) ==
    IF last = 0 THEN << >>
    ELSE attemptsUpTo(eventNames, last - 1, configured, throws)
         \o trackEvent(eventNames[last], configured, last \in throws).attempts

\* the operation op makes the emits eventNames in program order, the client
\* throwing on those numbered in throws; nothing runs after an exception
emitAll(op, eventNames, throws) ==
    LET thrown == thrownAt(eventNames, op.configured, throws)
        last == IF thrown = {} THEN Len(eventNames)
                ELSE CHOOSE k \in thrown : \A j \in thrown : k <= j
        failed == {k \in 1..last : op.configured /\ k \in throws}
    IN  [op EXCEPT !.attempts = @ \o attemptsUpTo(eventNames, last, op.configured, throws),
                   !.failures = @ + Cardinality(failed),
                   !.threw = thrown # {}]

\* the event the classifier emits on the branch that produced the result
accessEvent(result) ==
    IF get(result, "type") = Str("general_response") THEN "coo_query_unmatched"
    ELSE IF get(result, "search_matched") = Bool(TRUE) THEN "coo_smart_search_used"
    ELSE "coo_data_accessed"

\* the emits of processNaturalLanguageQuery and of query after it
answerEvents(result) == <<accessEvent(result), "coo_query_answered">>

\* one 'insight_generated' per insight of the analysis
RECURSIVE insightEvents(_)
insightEvents(n) == IF n = 0 THEN << >> ELSE Append(insightEvents(n - 1), "insight_generated")

\* the emits of trackOutcome once the pattern is stored
outcomeEvents(pattern) ==
    IF pattern.implemented >= 3
    THEN <<"insight_outcome_tracked", "insight_pattern_performance">>
    ELSE <<"insight_outcome_tracked">>

newOperation(kind, input, configured) ==
    [kind |-> kind, pc |-> "delay", input |-> input, configured |-> configured,
     results |-> << >>, attempts |-> << >>, failures |-> 0, threw |-> FALSE,
     returned |-> Undefined]

\* the operation goes on to its next await, or ends with the exception
suspend(op) == IF op.threw THEN [op EXCEPT !.pc = "threw"] ELSE op

\* the operation returns the value, or ends with the exception
finish(op, value) ==
    IF op.threw THEN [op EXCEPT !.pc = "threw"]
    ELSE [op EXCEPT !.pc = "returned", !.returned = value]

NoOperationRunning == operation.kind = "none" \/ operation.pc \in {"returned", "threw"}

\* query({ natural_language }) up to the delay
TrackedQuery(q, configured, throws) ==
    /\ NoOperationRunning
    /\ operation' = suspend(emitAll(newOperation("query", Str(q), configured),
                                     <<"coo_query_asked">>, throws))
    /\ UNCHANGED <<classifierVars, trackerVars, synthesisVars, catalog, inflight,
                   metricsRequest, storedInsights, insightsRequest, toolCall,
                   eventVars>>

\* the delay is over: classification with its emit, then the last emit
TrackedQueryReturns ==
    /\ operation.kind = "query"
    /\ operation.pc = "delay"
    /\ LET result == processNaturalLanguageQuery(operation.input.s)
           eventNames == answerEvents(result)
       IN  \E throws \in SUBSET (1..Len(eventNames)) :
               operation' = finish(emitAll(operation, eventNames, throws), result)
    /\ UNCHANGED <<classifierVars, trackerVars, synthesisVars, catalog, inflight,
                   metricsRequest, storedInsights, insightsRequest, toolCall,
                   eventVars>>

\* analyzeUserBehavior() up to the delay of its first query
TrackedAnalysis(configured, throws) ==
    /\ NoOperationRunning
    /\ operation' = suspend(emitAll(newOperation("analysis", Undefined, configured),
                                     <<"behavior_analysis_started", "coo_query_asked">>, throws))
    /\ UNCHANGED <<classifierVars, trackerVars, synthesisVars, catalog, inflight,
                   metricsRequest, storedInsights, insightsRequest, toolCall,
                   eventVars>>

\* the awaited query returns; the next one is issued or, after the third,
\* the results are synthesized, reported to the client and returned
TrackedAnalysisQueryReturns ==
    /\ operation.kind = "analysis"
    /\ operation.pc = "delay"
    /\ LET k == Len(operation.results) + 1
           synthesized(results) ==
               IF k < Len(analysisQuestions) THEN Undefined
               ELSE synthesizeInsights(
                        Obj(<< <<"featureAdoption", results[1]>>,
                               <<"retentionDrivers", results[2]>>,
                               <<"dropOffPoints", results[3]>> >>))
       IN  \E result \in {processNaturalLanguageQuery(analysisQuestions[k])} :
           \E synthesis \in {synthesized(Append(operation.results, result))} :
           \E eventNames \in
                  {IF k < Len(analysisQuestions)
                   THEN answerEvents(result) \o <<"coo_query_asked">>
                   ELSE answerEvents(result) \o <<"behavior_analysis_completed">>
                        \o insightEvents(Len(get(synthesis, "insights").items))} :
           \E throws \in SUBSET (1..Len(eventNames)) :
               LET answered == [emitAll(operation, eventNames, throws)
                                   EXCEPT !.results = Append(@, result)]
               IN  operation' = IF k < Len(analysisQuestions)
                                THEN suspend(answered)
                                ELSE finish(answered, synthesis)
    /\ UNCHANGED <<classifierVars, trackerVars, synthesisVars, catalog, inflight,
                   metricsRequest, storedInsights, insightsRequest, toolCall,
                   eventVars>>

\* trackOutcome(insightId, implemented, result): the pattern is stored, the
\* outcome reported to the client and the confidence returned
TrackedTrackOutcome(args, configured, throws) ==
    /\ NoOperationRunning
    /\ received < MaxReports
    /\ received' = received + 1
    /\ LET result == Obj(<< <<"improved", args.improved>>,
                            <<"actualImpact", Str("not_specified")>> >>)
           stored == trackedPatterns(patterns, args.insight_id, args.implemented,
                                     result)
       IN  /\ patterns' = stored
           /\ operation' =
                  finish(emitAll(newOperation("trackOutcome", args, configured),
                                  outcomeEvents(stored[args.insight_id]), throws),
                         updateConfidence(stored, args.insight_id))
    /\ UNCHANGED <<activeQuery, pendingReports, awaitingReports, response, issued,
                   lastReturned, synthesisVars, catalog, inflight, metricsRequest,
                   storedInsights, insightsRequest, toolCall, eventVars>>

(***************************************************************************)
(* GET /api/metrics/:category? and GET /api/insights                       *)
(***************************************************************************)
\* String.prototype.indexOf, counted from 1; 0 when t does not occur
indexOf(s, t) ==
    IF includes(s, t)
    THEN CHOOSE i \in 1..(Len(s) - Len(t) + 1) :
             /\ SubSeq(s, i, i + Len(t) - 1) = t
             /\ \A j \in 1..(i - 1) : SubSeq(s, j, j + Len(t) - 1) # t
    ELSE 0

\* String.prototype.replace with a string pattern: the first occurrence only
replace(s, pattern, replacement) ==
    LET i == indexOf(s, pattern)
    IN  IF i = 0 THEN s
        ELSE SubSeq(s, 1, i - 1) \o replacement \o SubSeq(s, i + Len(pattern), Len(s))

\* the categories GET /api/categories lists
listedCategories ==
    << "user_metrics", "revenue_metrics", "engagement_metrics", "growth_metrics",
       "feature_adoption", "retention_metrics", "onboarding_metrics",
       "support_metrics", "conversion_metrics", "performance_metrics",
       "competitive_metrics", "product_health" >>

\* the questions get-metrics asks for the category 'all', with the keys their
\* results are stored under
allMetricsKeys == << "user_metrics", "revenue_metrics", "engagement_metrics" >>
allMetricsQuestions ==
    << "How many users do we have?", "What is our monthly revenue?",
       "How is user engagement?" >>

\* the questions get-metrics asks for the category
metricsQuestions(category) ==
    IF category = "all" THEN allMetricsQuestions
    ELSE << "Tell me about " \o replace(category, "_", " ") >>

\* the data get-metrics builds from the results of its queries
metricsData(category, results) ==
    IF category = "all"
    THEN Obj([k \in 1..Len(allMetricsKeys) |-> <<allMetricsKeys[k], results[k]>>])
    ELSE results[1]

\* const { category = 'all' } = ...
categoryOrAll(category) == IF category = Undefined THEN Str("all") ELSE category

\* the request arrives; the handler runs up to the await of its queries
GetMetrics(category) ==
    /\ metricsRequest.pc # "delay"
    /\ metricsRequest' = [pc |-> "delay", category |-> categoryOrAll(category).s]
    /\ UNCHANGED <<classifierVars, trackerVars, synthesisVars, catalog, inflight,
                   operation, storedInsights, insightsRequest, toolCall, eventVars>>

\* the queries have returned (Promise.all for 'all'); the reply is sent
GetMetricsReturns ==
    /\ metricsRequest.pc = "delay"
    /\ LET category == metricsRequest.category
           questions == metricsQuestions(category)
           results == [k \in 1..Len(questions) |->
                          processNaturalLanguageQuery(questions[k])]
       IN  metricsRequest' = [pc |-> "replied", success |-> TRUE,
                              category |-> category,
                              data |-> metricsData(category, results)]
    /\ UNCHANGED <<classifierVars, trackerVars, synthesisVars, catalog, inflight,
                   operation, storedInsights, insightsRequest, toolCall, eventVars>>

\* the decimal digits of s as a number, digit by digit
RECURSIVE digitsValue(_, _)
digitsValue(s, acc) ==
    IF s = "" THEN acc
    ELSE digitsValue(SubSeq(s, 2, Len(s)),
                     10 * acc + (indexOf(DecimalDigits, charAt(s, 1)) - 1))

\* parseFloat of a number or of a decimal string such as "0.9"; NaN for
\* anything else
parseFloat(v) ==
    IF v.t = "num" THEN Dec(v.m, v.e)
    ELSE IF v.t # "str" \/ v.s = "" THEN NaN
    ELSE LET dot == indexOf(v.s, ".")
             whole == IF dot = 0 THEN v.s ELSE SubSeq(v.s, 1, dot - 1)
             fraction == IF dot = 0 THEN "" ELSE SubSeq(v.s, dot + 1, Len(v.s))
         IN  IF \A i \in 1..Len(whole \o fraction) :
                    includes(DecimalDigits, charAt(whole \o fraction, i))
             THEN Frac(digitsValue(whole \o fraction, 0), Pow10(Len(fraction)))
             ELSE NaN

\* x >= y on numbers: false as soon as one side is not a number
greaterOrEqual(x, y) == ~isNaN(x) /\ ~isNaN(y) /\ x.n * y.d >= y.n * x.d

\* insights.filter(insight => keep(insight)), in order
RECURSIVE filterInsights(_, _, _)
filterInsights(insights, threshold, type) ==
    IF insights = << >> THEN << >>
    ELSE LET head == insights[1]
             rest == filterInsights(Tail(insights), threshold, type)
             kept == /\ threshold = Undefined
                        \/ greaterOrEqual(toNumber(get(head, "confidence")),
                                          parseFloat(threshold))
                     /\ type = Undefined \/ get(head, "type") = type
         IN  IF kept THEN <<head>> \o rest ELSE rest

\* the two filters of get-insights: the confidence filter applies when
\* min_confidence > 0, the type filter when insight_type is truthy
selectInsights(insights, min_confidence, insight_type) ==
    filterInsights(insights,
                   IF ~isNaN(parseFloat(min_confidence))
                      /\ parseFloat(min_confidence).n > 0
                   THEN min_confidence ELSE Undefined,
                   IF truthy(insight_type) THEN insight_type ELSE Undefined)

\* const { min_confidence = 0.0, insight_type = null } = ...
minConfidenceOrZero(v) == IF v = Undefined THEN Num(0, 0) ELSE v
insightTypeOrNull(v) == IF v = Undefined THEN Null ELSE v

\* GET /api/insights: the stored insights, filtered, are sent at once
GetInsights(min_confidence, insight_type) ==
    /\ LET selected == selectInsights(storedInsights,
                                      minConfidenceOrZero(min_confidence),
                                      insightTypeOrNull(insight_type))
       IN  insightsRequest' =
               [pc |-> "replied", success |-> TRUE,
                min_confidence |-> minConfidenceOrZero(min_confidence),
                insight_type |-> insightTypeOrNull(insight_type),
                insights |-> selected, total_count |-> Len(selected)]
    /\ UNCHANGED <<classifierVars, trackerVars, synthesisVars, catalog, inflight,
                   operation, metricsRequest, storedInsights, toolCall, eventVars>>

(***************************************************************************)
(* The MCP server: the tool handlers and the CallTool request handler      *)
(***************************************************************************)
\* an exception leaves the call
thrown(error) == [threw |-> TRUE, error |-> error]
typeError(message) == [name |-> "TypeError", message |-> message]
\* new McpError(code, message); the class comes from the MCP SDK and the
\* message kept here is the one handed to its constructor
McpError(code, message) == [name |-> "McpError", code |-> code, message |-> message]

\* const { property = ... } = args, with no arguments in the request
cannotDestructure(property) ==
    thrown(typeError("Cannot destructure property '" \o property
                     \o "' of 'args' as it is undefined."))

\* handleAnalyzeBehavior: the full analysis, returned as the payload
handleAnalyzeBehavior(args) ==
    IF args = Undefined THEN cannotDestructure("include_tracking")
    ELSE LET results == [k \in 1..Len(analysisQuestions) |->
                            processNaturalLanguageQuery(analysisQuestions[k])]
             data == synthesizeInsights(
                         Obj(<< <<"featureAdoption", results[1]>>,
                                <<"retentionDrivers", results[2]>>,
                                <<"dropOffPoints", results[3]>> >>))
         IN  returns([success |-> TRUE, data |-> data])

\* handleQueryData: query() reads natural_language.length before anything else
handleQueryData(args) ==
    IF args = Undefined THEN cannotDestructure("question")
    ELSE IF get(args, "question").t # "str"
    THEN thrown(typeError("Cannot read properties of undefined (reading 'length')"))
    ELSE LET question == get(args, "question").s
             result == processNaturalLanguageQuery(question)
         IN  returns([success |-> TRUE, question |-> question, data |-> result,
                      insights |-> IF get(args, "generate_insights") = Bool(FALSE)
                                   THEN << >>
                                   ELSE mcpGenerateInsightsFromResult(result, question)])

\* handleTrackOutcome: no validation; the confidence trackOutcome returns
handleTrackOutcome(args, pats) ==
    IF args = Undefined THEN cannotDestructure("insight_id")
    ELSE returns([success |-> TRUE, insight_id |-> get(args, "insight_id"),
                  new_confidence |->
                      trackOutcome(pats, get(args, "insight_id"),
                                   get(args, "implemented"),
                                   Obj(<< <<"improved", get(args, "improved")>>,
                                          <<"actualImpact", Str("not_specified")>> >>))])

\* handleGetInsights: the stored insights, filtered
handleGetInsights(args, stored) ==
    IF args = Undefined THEN cannotDestructure("min_confidence")
    ELSE LET min_confidence == minConfidenceOrZero(get(args, "min_confidence"))
             insight_type == insightTypeOrNull(get(args, "insight_type"))
             selected == selectInsights(stored, min_confidence, insight_type)
         IN  returns([success |-> TRUE, insights |-> selected,
                      total_count |-> Len(selected),
                      min_confidence |-> min_confidence,
                      insight_type |-> insight_type])

\* handleGetMetrics: the same questions as the REST endpoint, asked one after
\* the other
handleGetMetrics(args) ==
    IF args = Undefined THEN cannotDestructure("category")
    ELSE LET category == categoryOrAll(get(args, "category"))
         IN  IF category.t # "str"
             THEN thrown(typeError("category.replace is not a function"))
             ELSE LET questions == metricsQuestions(category.s)
                      results == [k \in 1..Len(questions) |->
                                     processNaturalLanguageQuery(questions[k])]
                  IN  returns([success |-> TRUE, category |-> category.s,
                               data |-> metricsData(category.s, results)])

\* the switch of the CallTool handler; the default case throws inside the try
dispatch(name, args, pats, stored) ==
    CASE name = "coo_analyze_behavior" -> handleAnalyzeBehavior(args)
      [] name = "coo_query_data" -> handleQueryData(args)
      [] name = "coo_track_outcome" -> handleTrackOutcome(args, pats)
      [] name = "coo_get_insights" -> handleGetInsights(args, stored)
      [] name = "coo_get_metrics" -> handleGetMetrics(args)
      [] OTHER -> thrown(McpError("MethodNotFound", "Unknown tool: " \o name))

\* try { switch ... } catch (error) { throw new McpError(InternalError, ...) }
callToolAnswer(name, outcome) ==
    IF outcome.threw
    THEN thrown(McpError("InternalError",
                         "Error executing tool " \o name \o ": "
                         \o outcome.error.message))
    ELSE outcome

\* a tools/call request is handled: dispatch, the handler's run, the answer
CallTool(name, args) ==
    /\ name = "coo_track_outcome" => received < MaxReports
    /\ \E outcome \in {dispatch(name, args, patterns, storedInsights)} :
           /\ toolCall' = [pc |-> "answered", name |-> name, args |-> args,
                           answer |-> callToolAnswer(name, outcome)]
           /\ IF name = "coo_track_outcome" /\ ~outcome.threw
              THEN /\ received' = received + 1
                   /\ patterns' =
                          trackedPatterns(patterns, get(args, "insight_id"),
                              get(args, "implemented"),
                              Obj(<< <<"improved", get(args, "improved")>>,
                                     <<"actualImpact", Str("not_specified")>> >>))
              ELSE UNCHANGED <<received, patterns>>
    /\ UNCHANGED <<activeQuery, pendingReports, awaitingReports, response, issued,
                   lastReturned, synthesisVars, catalog, inflight, operation,
                   metricsRequest, storedInsights, insightsRequest, eventVars>>

\* the category of a get-metrics request: absent, 'all' or a listed name
MetricsCategories ==
    {Undefined, Str("all")} \cup {Str(listedCategories[i]) : i \in 1..Len(listedCategories)}
\* the arguments of coo_get_metrics for the category
metricsArguments(category) ==
    IF category = Undefined THEN Obj(<< >>) ELSE Obj(<< <<"category", category>> >>)

\* the filters of a get-insights request: absent or given; a query string of
\* the REST endpoint carries the number as text
RestInsightFilters ==
    [min_confidence : {Undefined, Str("0.9")}, insight_type : {Undefined, Str("retention")}]
InsightsArguments ==
    {Obj(<< >>),
     Obj(<< <<"min_confidence", Num(9, 1)>> >>),
     Obj(<< <<"insight_type", Str("retention")>> >>),
     Obj(<< <<"min_confidence", Num(9, 1)>>, <<"insight_type", Str("retention")>> >>)}

\* the tools of the catalog and names outside it
toolCatalog ==
    << "coo_analyze_behavior", "coo_query_data", "coo_track_outcome",
       "coo_get_insights", "coo_get_metrics" >>
ToolNames == {toolCatalog[i] : i \in 1..Len(toolCatalog)} \cup {"coo_delete_data", ""}

\* the arguments of a call: none at all, or what the tool documents; a
\* coo_query_data call may leave out its question
ToolArguments(name) ==
    {Undefined}
    \cup CASE name = "coo_query_data" ->
                {Obj(<< >>), Obj(<< <<"question", Str("What is our monthly revenue?")>> >>)}
           [] name = "coo_track_outcome" ->
                {Obj(<< <<"insight_id", body.insight_id>>,
                        <<"implemented", body.implemented>>,
                        <<"improved", body.improved>> >>) : body \in ConcurrentReports}
           [] name = "coo_get_insights" -> InsightsArguments
           [] name = "coo_get_metrics" ->
                {metricsArguments(Str("all")), metricsArguments(Str("user_metrics"))}
           [] OTHER -> {Obj(<< >>)}

\* track(eventName, properties, userId), the clock having advanced since the
\* call before: the event is stored, sent to the client and added to the
\* user's profile
Track(eventName, properties, userId, random, clientThrows) ==
    /\ Len(events) <= MaxEvents
    /\ now' = now + 1
    /\ LET event == trackedEvent(users, eventName, properties, userId, now', random)
           sent == sendToMixpanel(event, clientThrows)
       IN  /\ events' = Append(events, event)
           /\ users' = IF ~sent.threw /\ truthy(userId)
                       THEN updateUserProfile(users, userId, event, now')
                       ELSE users
           /\ answer' = [fn |-> "track", clientThrows |-> clientThrows,
                         threw |-> sent.threw, returned |-> event]
    /\ UNCHANGED <<classifierVars, trackerVars, synthesisVars, serviceVars>>

\* trackPost(userId, postType)
TrackPost(userId, postType, random, clientThrows) ==
    Track("post_created", postProperties(postType), userId, random, clientThrows)

\* trackUpload(userId, fileType)
TrackUpload(userId, fileType, random, clientThrows) ==
    Track("file_uploaded", uploadProperties(fileType), userId, random, clientThrows)

\* analyzeUserBehavior(userId)
AnalyzeUserBehavior(userId) ==
    /\ answer' = [fn |-> "analyzeUserBehavior", userId |-> userId,
                  returned |-> analyzeUserBehavior(events, userId)]
    /\ UNCHANGED <<classifierVars, trackerVars, synthesisVars, serviceVars, events,
                   users, now>>

\* getMetrics()
GetAgentMetrics ==
    /\ answer' = [fn |-> "getMetrics", returned |-> getMetrics(events)]
    /\ UNCHANGED <<classifierVars, trackerVars, synthesisVars, serviceVars, events,
                   users, now>>

\* the users of the tracking calls (null: a call without a user) and what
\* they post and upload
UserIds == {Str("user123"), Str("ana"), Null}
PostTypes == {"text", "image"}
FileTypes == {"image"}

NextClassifier ==
    \/ \E q \in Questions : Query(q)
    \/ QueryReturns

NextTracker ==
    \/ \E body \in TrackOutcomeBodies : ReceiveTrackOutcome(body)
    \/ \E body \in TrackOutcomeBodies : HandleTrackOutcome(body)
    \/ \E a \in BagToSet(awaitingReports) : RespondTrackOutcome(a)

NextAnalysis ==
    \/ StartAnalysis
    \/ AnalysisQueryReturns
    \/ \E args \in TrackOutcomeBodies : McpTrackOutcome(args)

NextQueryInsights ==
    \/ \E path \in {"rest", "mcp"}, q \in Questions, g \in BOOLEAN :
           InsightQuery(path, q, g)
    \/ InsightQueryReturns

NextSynthesis ==
    \/ \E data \in SynthesisData : SynthesizeInsights(data)
    \/ \E insights \in InsightLists(MaxInsights) : GenerateExecutiveSummary(insights)
    \/ \E result \in ResultRecords : GenerateInsightsFromResult(result)

NextConcurrent ==
    \/ \E id \in 1..MaxCalls, q \in ConcurrentQuestions : ConcurrentQuery(id, q)
    \/ \E id \in 1..MaxCalls : ConcurrentQueryReturns(id)
    \/ StartAnalysis
    \/ AnalysisQueryReturns
    \/ \E args \in ConcurrentReports : McpTrackOutcome(args)

NextTelemetry ==
    \/ \E q \in TelemetryQuestions, configured \in BOOLEAN, throws \in SUBSET (1..1) :
           TrackedQuery(q, configured, throws)
    \/ TrackedQueryReturns
    \/ \E configured \in BOOLEAN, throws \in SUBSET (1..2) :
           TrackedAnalysis(configured, throws)
    \/ TrackedAnalysisQueryReturns
    \/ \E args \in ConcurrentReports, configured \in BOOLEAN, throws \in SUBSET (1..2) :
           TrackedTrackOutcome(args, configured, throws)

NextValidation ==
    \/ \E body \in ValidationBodies : ReceiveTrackOutcome(body)
    \/ \E body \in ValidationBodies : HandleTrackOutcome(body)
    \/ \E a \in BagToSet(awaitingReports) : RespondTrackOutcome(a)

NextMetrics ==
    \/ \E category \in MetricsCategories : GetMetrics(category)
    \/ GetMetricsReturns
    \/ \E category \in MetricsCategories :
           CallTool("coo_get_metrics", metricsArguments(category))

NextInsights ==
    \/ StartAnalysis
    \/ AnalysisQueryReturns
    \/ \E f \in RestInsightFilters : GetInsights(f.min_confidence, f.insight_type)
    \/ \E args \in InsightsArguments : CallTool("coo_get_insights", args)

NextTools ==
    \E name \in ToolNames : \E args \in ToolArguments(name) : CallTool(name, args)

NextEvents ==
    \/ \E userId \in UserIds, postType \in PostTypes, random \in RandomSuffixes,
          clientThrows \in BOOLEAN :
           TrackPost(userId, postType, random, clientThrows)
    \/ \E userId \in UserIds, fileType \in FileTypes, random \in RandomSuffixes,
          clientThrows \in BOOLEAN :
           TrackUpload(userId, fileType, random, clientThrows)
    \/ \E userId \in UserIds : AnalyzeUserBehavior(userId)
    \/ GetAgentMetrics

Next == NextClassifier \/ NextTracker \/ NextAnalysis \/ NextQueryInsights
        \/ NextSynthesis \/ NextConcurrent \/ NextTelemetry \/ NextValidation
        \/ NextMetrics \/ NextInsights \/ NextTools \/ NextEvents

SpecClassifier == Init /\ [][NextClassifier]_vars
SpecTracker == Init /\ [][NextTracker]_vars
SpecAnalysis == Init /\ [][NextAnalysis]_vars
SpecQueryInsights == Init /\ [][NextQueryInsights]_vars
SpecSynthesis == Init /\ [][NextSynthesis]_vars
SpecConcurrent == Init /\ [][NextConcurrent]_vars
SpecTelemetry == Init /\ [][NextTelemetry]_vars
SpecValidation == Init /\ [][NextValidation]_vars
SpecMetrics == Init /\ [][NextMetrics]_vars
SpecInsights == Init /\ [][NextInsights]_vars
SpecTools == Init /\ [][NextTools]_vars
SpecEvents == Init /\ [][NextEvents]_vars
Spec == Init /\ [][Next]_vars

(***************************************************************************)
(* Properties of the classifier.                                           *)
(***************************************************************************)
Returned == activeQuery.pc = "returned"
ResultType == get(activeQuery.result, "type").s
LowerQuestion == toLowerCase(activeQuery.question)

\* rule i of the priority list fires on the text
RuleFires(i, text) ==
    IF i = ConjunctiveRule
    THEN \A j \in 1..Len(RuleTriggers[i]) : includes(text, RuleTriggers[i][j])
    ELSE \E j \in 1..Len(RuleTriggers[i]) : includes(text, RuleTriggers[i][j])
FiringRules(text) == {i \in 1..Len(RuleTriggers) : RuleFires(i, text)}
First(S) == CHOOSE i \in S : \A j \in S : i <= j

\* the catalog entries of which some space-separated token of the question
\* is a substring of the name or of the serialized record
MatchingCategories(question) ==
    LET tokens == split(toLowerCase(question), " ")
    IN  {i \in 1..Len(mockBusinessData.entries) :
            \E j \in 1..Len(tokens) :
                \/ includes(mockBusinessData.entries[i][1], tokens[j])
                \/ includes(serializedData[i], tokens[j])}

SearchFlagged == get(activeQuery.result, "search_matched") = Bool(TRUE)

\* C1: a returned result has the category of the first rule, in the fixed
\* priority order, that fires on the lower-cased question; rules after it do
\* not influence the result.
C1_FirstFiringRuleWins ==
    (Returned /\ FiringRules(LowerQuestion) # {})
        => ResultType = RuleCategories[First(FiringRules(LowerQuestion))]

\* a question with both "revenue" and "how many users" came back as
\* user_metrics
C1_Witness ==
    /\ Returned
    /\ includes(LowerQuestion, "revenue")
    /\ includes(LowerQuestion, "how many users")
    /\ FiringRules(LowerQuestion) = {1, 2}
    /\ ResultType = "user_metrics"

\* the question has "adoption", lacks "features" and fires no keyword rule
AdoptionAlone ==
    /\ includes(LowerQuestion, "adoption")
    /\ ~includes(LowerQuestion, "features")
    /\ FiringRules(LowerQuestion) = {}

\* C2 as stated: a question with "adoption" but without "features" that
\* fires no keyword rule never comes back as feature_adoption.
C2_AdoptionAloneNotFeatureAdoption ==
    (Returned /\ AdoptionAlone) => ResultType # "feature_adoption"

\* C2 amended: such a question is not answered by the feature_adoption
\* keyword rule; its result comes from the catalog search and carries
\* search_matched = true, or is the general response (the search itself may
\* select feature_adoption).
C2_AdoptionAloneFallsThrough ==
    (Returned /\ AdoptionAlone)
        => (SearchFlagged \/ ResultType = "general_response")

\* "adoption" alone came back from the catalog search as feature_adoption
C2_Witness ==
    /\ Returned
    /\ activeQuery.question = "adoption"
    /\ AdoptionAlone
    /\ SearchFlagged
    /\ ResultType = "feature_adoption"

RECURSIVE OnlySpaces(_)
OnlySpaces(text) ==
    Len(text) = 0 \/ (charAt(text, 1) = " " /\ OnlySpaces(SubSeq(text, 2, Len(text))))

\* C3: an empty or whitespace-only question comes back as general_response.
C3_BlankQuestionIsGeneral ==
    (Returned /\ OnlySpaces(activeQuery.question))
        => ResultType = "general_response"

\* C4: when no keyword rule fires and no token of the question matches a
\* catalog entry, the result is general_response with the help message and
\* exactly 8 suggestions, without record fields and without fallback flag.
C4_UnmatchedIsGeneralResponse ==
    (/\ Returned
     /\ FiringRules(LowerQuestion) = {}
     /\ MatchingCategories(activeQuery.question) = {})
        => /\ ResultType = "general_response"
           /\ keys(activeQuery.result) = <<"type", "message", "suggestions">>
           /\ get(activeQuery.result, "message").t = "str"
           /\ Len(get(activeQuery.result, "message").s) > 0
           /\ get(activeQuery.result, "suggestions").t = "arr"
           /\ Len(get(activeQuery.result, "suggestions").items) = 8
           /\ ~hasOwn(activeQuery.result, "search_matched")

\* "xyzzy plugh" came back as the general response
C4_Witness ==
    /\ Returned
    /\ activeQuery.question = "xyzzy plugh"
    /\ FiringRules(LowerQuestion) = {}
    /\ MatchingCategories(activeQuery.question) = {}
    /\ ResultType = "general_response"

\* C5: when no keyword rule fires and the catalog search matches, the result
\* is the first matching category in catalog order with search_matched =
\* true; a keyword-rule result and the general response never carry the flag.
C5_SearchPicksFirstMatchAndFlags ==
    Returned =>
        IF FiringRules(LowerQuestion) = {}
           /\ MatchingCategories(activeQuery.question) # {}
        THEN /\ ResultType = mockBusinessData.entries[
                                 First(MatchingCategories(activeQuery.question))][1]
             /\ SearchFlagged
        ELSE ~hasOwn(activeQuery.result, "search_matched")

\* a question matched only by later catalog entries came back flagged, with
\* the first of them
C5_Witness ==
    /\ Returned
    /\ FiringRules(LowerQuestion) = {}
    /\ Cardinality(MatchingCategories(activeQuery.question)) >= 2
    /\ First(MatchingCategories(activeQuery.question)) > 1
    /\ SearchFlagged
    /\ ResultType = mockBusinessData.entries[
                        First(MatchingCategories(activeQuery.question))][1]

(***************************************************************************)
(* Properties of the outcome tracker.                                      *)
(***************************************************************************)
\* this step dispatches one pending request with the given body
Dispatched(body) ==
    /\ BagIn(body, pendingReports)
    /\ CopiesIn(body, pendingReports') = CopiesIn(body, pendingReports) - 1

\* this step is a report: a well-typed request reaches trackOutcome
Reports(body) == Dispatched(body) /\ WellTyped(body)

CountersBefore(id) ==
    IF id \in DOMAIN patterns THEN patterns[id]
    ELSE [suggested |-> 0, implemented |-> 0, successful |-> 0]

\* the fraction c equals n / d
IsNumber(c, n, d) == c.n * d = n * c.d

\* C6: one report (id, implemented, improved) adds 1 to suggested, adds 1 to
\* implemented iff implemented, adds 1 to successful iff implemented and
\* improved, starting from (0,0,0) for a new identifier, and leaves the
\* patterns of all other identifiers unchanged.
C6_ReportUpdatesExactlyItsPattern ==
    [][\A body \in TrackOutcomeBodies :
          Reports(body) =>
              LET id == body.insight_id
                  before == CountersBefore(id)
              IN  /\ DOMAIN patterns' = DOMAIN patterns \cup {id}
                  /\ patterns'[id].suggested = before.suggested + 1
                  /\ patterns'[id].implemented =
                         before.implemented + (IF body.implemented.b THEN 1 ELSE 0)
                  /\ patterns'[id].successful =
                         before.successful
                         + (IF body.implemented.b /\ body.improved.b THEN 1 ELSE 0)
                  /\ \A other \in DOMAIN patterns \ {id} :
                         patterns'[other] = patterns[other]]_vars

\* two identifiers have patterns, one of them after a failed and a
\* successful implementation
C6_Witness ==
    /\ Cardinality(DOMAIN patterns) = 2
    /\ \E id \in DOMAIN patterns :
           patterns[id] = [suggested |-> 2, implemented |-> 2, successful |-> 1]
    /\ \E id \in DOMAIN patterns :
           patterns[id] = [suggested |-> 1, implemented |-> 0, successful |-> 0]

\* the confidence the claim assigns to the counters
ConfidenceIsAsClaimed(c, p) ==
    IF p.implemented = 0 THEN IsNumber(c, 1, 2)
    ELSE IF 10 * p.successful < p.implemented THEN IsNumber(c, 1, 10)
    ELSE IF 100 * p.successful > 95 * p.implemented THEN IsNumber(c, 95, 100)
    ELSE IsNumber(c, p.successful, p.implemented)

\* 0.1 <= c <= 0.95
InConfidenceRange(c) == 10 * c.n >= c.d /\ 100 * c.n <= 95 * c.d

\* C7: every report returns 0.5 when the identifier's implemented count
\* after the report is 0, and otherwise successful / implemented clamped to
\* [0.1, 0.95]; every returned confidence lies in [0.1, 0.95].
C7_ReturnedConfidence ==
    /\ [][\A body \in TrackOutcomeBodies :
             Reports(body) =>
                 ConfidenceIsAsClaimed(lastReturned'[body.insight_id],
                                       patterns'[body.insight_id])]_vars
    /\ [](\A id \in DOMAIN lastReturned : InConfidenceRange(lastReturned[id]))
    /\ [](\A a \in BagToSet(awaitingReports) : InConfidenceRange(a.confidence))
    /\ [](response.status = 200 => InConfidenceRange(response.new_confidence))

\* reports (true, true) then (true, false) were answered, the second with
\* 0.5; another identifier's only report (true, true) returned 0.95
C7_Witness ==
    /\ \E id \in DOMAIN patterns :
           /\ patterns[id] = [suggested |-> 2, implemented |-> 2, successful |-> 1]
           /\ IsNumber(lastReturned[id], 1, 2)
           /\ response = [status |-> 200, insight_id |-> id,
                          new_confidence |-> lastReturned[id]]
    /\ \E id \in DOMAIN patterns :
           /\ patterns[id] = [suggested |-> 1, implemented |-> 1, successful |-> 1]
           /\ IsNumber(lastReturned[id], 95, 100)

\* C8: every pattern has 0 <= successful <= implemented <= suggested and
\* exists only if a report was made for its identifier; no counter ever
\* decreases and no pattern is ever removed.
C8_PatternInvariants ==
    /\ [](\A id \in DOMAIN patterns :
             /\ 0 <= patterns[id].successful
             /\ patterns[id].successful <= patterns[id].implemented
             /\ patterns[id].implemented <= patterns[id].suggested
             /\ id \in DOMAIN issued
             /\ issued[id].suggested >= 1)
    /\ [][\A id \in DOMAIN patterns :
             /\ id \in DOMAIN patterns'
             /\ patterns'[id].suggested >= patterns[id].suggested
             /\ patterns'[id].implemented >= patterns[id].implemented
             /\ patterns'[id].successful >= patterns[id].successful]_vars

\* a pattern with three different counters, next to another pattern
C8_Witness ==
    /\ Cardinality(DOMAIN patterns) = 2
    /\ \E id \in DOMAIN patterns :
           patterns[id] = [suggested |-> 3, implemented |-> 2, successful |-> 1]

\* C9: once all the concurrent reports have run, every identifier's counters
\* are exactly (N, m, k): the number of its reports, of those implemented,
\* and of those implemented and improved, whatever the interleaving.
C9_NoLostUpdates ==
    pendingReports = EmptyBag
        => /\ DOMAIN patterns = DOMAIN issued
           /\ \A id \in DOMAIN issued : patterns[id] = issued[id]

\* all the reports of the run were for one identifier and in flight
\* together: their handlers are all suspended after trackOutcome
C9_Witness ==
    /\ pendingReports = EmptyBag
    /\ BagCardinality(awaitingReports) = MaxReports
    /\ \E id \in DOMAIN issued :
           /\ issued[id].suggested = MaxReports
           /\ issued[id].implemented = MaxReports - 1
           /\ issued[id].successful = 1
           /\ patterns[id] = issued[id]

\* C10: a report with implemented = false changes only suggested, returns
\* the confidence the identifier's previous report returned, and returns 0.5
\* as long as the identifier never had an implemented report.
C10_UnimplementedReportKeepsConfidence ==
    [][\A body \in TrackOutcomeBodies :
          (Reports(body) /\ ~body.implemented.b) =>
              LET id == body.insight_id
                  before == CountersBefore(id)
              IN  /\ patterns'[id].suggested = before.suggested + 1
                  /\ patterns'[id].implemented = before.implemented
                  /\ patterns'[id].successful = before.successful
                  /\ id \in DOMAIN lastReturned
                         => lastReturned'[id] = lastReturned[id]
                  /\ before.implemented = 0
                         => IsNumber(lastReturned'[id], 1, 2)]_vars

\* one identifier was reported unimplemented as often as the run allows and
\* the last of these reports was answered 0.5
C10_Witness ==
    \E id \in DOMAIN patterns :
        /\ patterns[id] = [suggested |-> MaxReports, implemented |-> 0,
                           successful |-> 0]
        /\ IsNumber(lastReturned[id], 1, 2)
        /\ response = [status |-> 200, insight_id |-> id,
                       new_confidence |-> lastReturned[id]]

(***************************************************************************)
(* Claims about the full analysis and the synthesis of insights.           *)
(***************************************************************************)
AnalysisDone == analysis.pc = "done"
ReturnedInsights == get(analysis.result, "insights").items
ReturnedSummary == get(analysis.result, "summary")
ReturnedMetrics == get(analysis.result, "metrics")
TypeOf(x) == get(x, "type").s
\* the order in which the synthesis evaluates its three rules
RuleOrder == <<"retention", "adoption", "onboarding">>
RulePosition(type) == CHOOSE p \in 1..Len(RuleOrder) : RuleOrder[p] = type
InRuleOrder(list) ==
    \A i, j \in 1..Len(list) :
        i < j => RulePosition(TypeOf(list[i])) < RulePosition(TypeOf(list[j]))

\* C11: the insight list a full analysis returns is in rule-evaluation
\* order, retention, then adoption, then onboarding; computing the summary
\* does not reorder it.
C11_ReturnedInsightsInRuleOrder ==
    AnalysisDone => InRuleOrder(ReturnedInsights)

Synthesized == call.fn = "synthesizeInsights"
\* the field of one of the three records handed to the synthesis;
\* undefined when the record or the field is absent
FieldOf(data, name, field) ==
    LET r == get(data, name)
    IN  IF r.t = "obj" THEN get(r, field) ELSE Undefined
NoTrigger(data) ==
    /\ FieldOf(data, "retentionDrivers", "topAction") = Undefined
    /\ FieldOf(data, "featureAdoption", "underused") = Undefined
    /\ FieldOf(data, "dropOffPoints", "biggest") = Undefined

\* C12: when topAction, underused and biggest are all absent the synthesis
\* returns an empty insight list and a summary whose averageConfidence is
\* reported as 0%, not as a not-a-number value.
C12_NoInsightReportsZeroPercent ==
    (Synthesized /\ NoTrigger(call.input)) =>
        /\ get(call.output, "insights") = Arr(<< >>)
        /\ get(get(call.output, "summary"), "averageConfidence")
               \in {Str("0%"), Str("0.0%")}

Summarized == call.fn = "generateExecutiveSummary"
Confidence(x) == get(x, "confidence")
Recommendation(x) == get(x, "recommendation")
\* a <= b on decimals
AtMost(a, b) == a.m * Pow10(b.e) <= b.m * Pow10(a.e)
\* the first position of the list that holds an insight of maximum confidence
FirstOfMaximumConfidence(list) ==
    CHOOSE i \in 1..Len(list) :
        /\ \A j \in 1..Len(list) : AtMost(Confidence(list[j]), Confidence(list[i]))
        /\ \A j \in 1..(i - 1) : ~AtMost(Confidence(list[i]), Confidence(list[j]))

\* C13: for a non-empty insight list, topRecommendation and criticalAction
\* are the recommendation of the first insight, in the order of the list,
\* among those of maximum confidence, and totalInsights is the length of
\* the list.
C13_TopIsFirstOfMaximumConfidence ==
    (Summarized /\ call.input # << >>) =>
        LET list == call.input
            summary == call.output.summary
            top == list[FirstOfMaximumConfidence(list)]
        IN  /\ get(summary, "topRecommendation") = Recommendation(top)
            /\ get(summary, "criticalAction") = Recommendation(top)
            /\ get(summary, "totalInsights") = Num(Len(list), 0)

\* a list of three whose second and third insights tie for the maximum and
\* recommend different things: the second one's recommendation is reported
C13_Witness ==
    /\ Summarized
    /\ Len(call.input) = 3
    /\ Confidence(call.input[2]) = Confidence(call.input[3])
    /\ ~AtMost(Confidence(call.input[2]), Confidence(call.input[1]))
    /\ Recommendation(call.input[2]) # Recommendation(call.input[3])
    /\ get(call.output.summary, "topRecommendation") = Recommendation(call.input[2])

\* a = b on decimals
SameNumber(a, b) == a.t = "num" /\ b.t = "num" /\ a.m * Pow10(b.e) = b.m * Pow10(a.e)
TypesAndConfidences(list) ==
    [i \in 1..Len(list) |-> <<TypeOf(list[i]), Confidence(list[i])>>]

\* C14: on the shipped data a full analysis yields the three insights
\* retention 0.89, adoption 0.85 and onboarding 0.92, a summary with
\* totalInsights 3, averageConfidence "88.7%" and topRecommendation
\* "Simplify email_verification to single tap", and the metrics
\* adoptionHealth 5, retentionStrength 0.78 and onboardingEfficiency 0.58,
\* in every run of the analysis.
C14_ShippedAnalysisIsTheDocumentedOne ==
    AnalysisDone =>
        /\ TypesAndConfidences(ReturnedInsights)
               = << <<"retention", Num(89, 2)>>, <<"adoption", Num(85, 2)>>,
                    <<"onboarding", Num(92, 2)>> >>
        /\ get(ReturnedSummary, "totalInsights") = Num(3, 0)
        /\ get(ReturnedSummary, "averageConfidence") = Str("88.7%")
        /\ get(ReturnedSummary, "topRecommendation")
               = Str("Simplify email_verification to single tap")
        /\ SameNumber(get(ReturnedMetrics, "adoptionHealth"), Num(5, 0))
        /\ SameNumber(get(ReturnedMetrics, "retentionStrength"), Num(78, 2))
        /\ SameNumber(get(ReturnedMetrics, "onboardingEfficiency"), Num(58, 2))

\* what the claim says apart from the order of the list: the same three
\* insights, summary and metrics in every run
ShippedAnalysisUpToOrder ==
    AnalysisDone =>
        /\ {TypesAndConfidences(ReturnedInsights)[i] : i \in 1..Len(ReturnedInsights)}
               = { <<"retention", Num(89, 2)>>, <<"adoption", Num(85, 2)>>,
                   <<"onboarding", Num(92, 2)>> }
        /\ Len(ReturnedInsights) = 3
        /\ get(ReturnedSummary, "totalInsights") = Num(3, 0)
        /\ get(ReturnedSummary, "averageConfidence") = Str("88.7%")
        /\ get(ReturnedSummary, "topRecommendation")
               = Str("Simplify email_verification to single tap")
        /\ SameNumber(get(ReturnedMetrics, "adoptionHealth"), Num(5, 0))
        /\ SameNumber(get(ReturnedMetrics, "retentionStrength"), Num(78, 2))
        /\ SameNumber(get(ReturnedMetrics, "onboardingEfficiency"), Num(58, 2))

\* the questions of the analysis and the categories they are to classify to
AnalysisPlan ==
    << [question |-> "Which features have the highest adoption in first week?",
        category |-> "feature_adoption"],
       [question |-> "What actions correlate with 30-day retention?",
        category |-> "retention_metrics"],
       [question |-> "Where do users drop off in the onboarding flow?",
        category |-> "onboarding_metrics"] >>

\* the category of the first keyword rule the question fires
KeywordCategory(question) ==
    RuleCategories[First(FiringRules(toLowerCase(question)))]

\* C15: a full analysis issues exactly three queries, the feature-adoption
\* question, the retention question and the drop-off question in this
\* order, each completed before the next is issued; they classify to
\* feature_adoption, retention_metrics and onboarding_metrics, each by a
\* keyword rule and not by the fallback search.
C15_ThreeQueriesInOrder ==
    /\ Len(queryLog) <= 2 * Len(AnalysisPlan)
    /\ AnalysisDone => Len(queryLog) = 2 * Len(AnalysisPlan)
    /\ \A k \in 1..Len(AnalysisPlan) :
          /\ 2 * k - 1 <= Len(queryLog) =>
                queryLog[2 * k - 1] = [event |-> "issued",
                                       question |-> AnalysisPlan[k].question]
          /\ 2 * k <= Len(queryLog) =>
                LET done == queryLog[2 * k]
                IN  /\ done.event = "completed"
                    /\ done.question = AnalysisPlan[k].question
                    /\ get(done.result, "type") = Str(AnalysisPlan[k].category)
                    /\ ~hasOwn(done.result, "search_matched")
                    /\ FiringRules(toLowerCase(done.question)) # {}
                    /\ KeywordCategory(done.question) = AnalysisPlan[k].category

\* an analysis has returned after its three queries were issued and
\* completed one after the other
C15_Witness ==
    /\ AnalysisDone
    /\ Len(queryLog) = 6
    /\ queryLog[6].event = "completed"
    /\ get(queryLog[6].result, "type") = Str("onboarding_metrics")
    /\ Len(analysis.results) = 3

\* C16: the metrics of a synthesis are adoptionHealth = the number of
\* entries of the feature-adoption record's topFeatures (0 if absent),
\* retentionStrength = the retention record's correlationStrength (0 if
\* absent) and onboardingEfficiency = 1 - dropOffRate of the drop-off record
\* (1 if absent), whether or not any insight was produced.
C16_MetricsAsDefined ==
    Synthesized =>
        LET data == call.input
            metrics == get(call.output, "metrics")
            topFeatures == FieldOf(data, "featureAdoption", "topFeatures")
            correlationStrength == FieldOf(data, "retentionDrivers", "correlationStrength")
            dropOffRate == FieldOf(data, "dropOffPoints", "dropOffRate")
            efficiency == get(metrics, "onboardingEfficiency")
        IN  /\ SameNumber(get(metrics, "adoptionHealth"),
                          IF topFeatures = Undefined THEN Num(0, 0)
                          ELSE Num(Len(topFeatures.items), 0))
            /\ SameNumber(get(metrics, "retentionStrength"),
                          IF correlationStrength = Undefined THEN Num(0, 0)
                          ELSE correlationStrength)
            /\ IF dropOffRate = Undefined THEN SameNumber(efficiency, Num(1, 0))
               ELSE /\ efficiency.t = "num"
                    /\ efficiency.m * Pow10(dropOffRate.e)
                           + dropOffRate.m * Pow10(efficiency.e)
                       = Pow10(efficiency.e + dropOffRate.e)

\* a synthesis that produced no insight and still reports the metrics of its
\* records: two top features, correlation 0.5 and efficiency 1 - 0.32
C16_Witness ==
    /\ Synthesized
    /\ get(call.output, "insights") = Arr(<< >>)
    /\ FieldOf(call.input, "dropOffPoints", "dropOffRate") = Num(32, 2)
    /\ SameNumber(get(get(call.output, "metrics"), "adoptionHealth"), Num(2, 0))
    /\ SameNumber(get(get(call.output, "metrics"), "retentionStrength"), Num(5, 1))
    /\ SameNumber(get(get(call.output, "metrics"), "onboardingEfficiency"), Num(68, 2))

Generated == call.fn = "generateInsightsFromResult"
\* the insights a call of the per-query synthesizer handed back: none when
\* it threw
Produced(output) == IF output.threw THEN << >> ELSE output.value
Category(result) ==
    IF get(result, "type").t = "str" THEN get(result, "type").s ELSE ""
IsNumberField(v) == v.t = "num"
Below(v, m, e) == IsNumberField(v) /\ v.m * Pow10(e) < m * Pow10(v.e)
Above(v, m, e) == IsNumberField(v) /\ v.m * Pow10(e) > m * Pow10(v.e)
NonEmpty(v) == v.t = "str" /\ v.s # ""
WinRate(result) ==
    IF get(result, "win_loss_analysis").t = "obj"
    THEN get(get(result, "win_loss_analysis"), "win_rate") ELSE Undefined

\* the rule table of the specification: the categories that have a rule,
\* the condition of each rule and its confidence
TableCategories ==
    { "user_metrics", "revenue_metrics", "retention_metrics", "onboarding_metrics",
      "feature_adoption", "product_health", "competitive_metrics" }
TableCondition(result) ==
    CASE Category(result) = "user_metrics" -> Above(get(result, "growth_rate"), 10, 2)
      [] Category(result) = "revenue_metrics" ->
             Above(get(result, "revenue_growth"), 10, 2)
      [] Category(result) = "retention_metrics" -> NonEmpty(get(result, "topAction"))
      [] Category(result) = "onboarding_metrics" ->
             Above(get(result, "dropOffRate"), 3, 1)
      [] Category(result) = "feature_adoption" -> NonEmpty(get(result, "underused"))
      [] Category(result) = "product_health" -> Below(get(result, "nps_score"), 50, 0)
      [] Category(result) = "competitive_metrics" -> Below(WinRate(result), 4, 1)
      [] OTHER -> FALSE
TableConfidence(category) ==
    CASE category = "user_metrics" -> Num(87, 2)
      [] category = "revenue_metrics" -> Num(91, 2)
      [] category = "retention_metrics" -> Num(89, 2)
      [] category = "onboarding_metrics" -> Num(92, 2)
      [] category = "feature_adoption" -> Num(85, 2)
      [] category = "product_health" -> Num(88, 2)
      [] category = "competitive_metrics" -> Num(86, 2)
\* the confidences the table gives for a result, as a list
TableConfidences(result) ==
    IF TableCondition(result) THEN <<TableConfidence(Category(result))>> ELSE << >>

RepliedWithInsights ==
    /\ insightQuery.pc = "replied"
    /\ insightQuery.generate_insights
Confidences(list) == [i \in 1..Len(list) |-> Confidence(list[i])]

\* C18: for every classified query result, POST /api/query and the MCP
\* tool coo_query_data (generate_insights true) reply with the same
\* insights, in number and confidence, as the full rule table gives for the
\* result; in particular an onboarding_metrics result with dropOffRate > 0.3
\* comes with exactly one insight of confidence 0.92.
C18_ApiInsightsFollowFullTable ==
    RepliedWithInsights =>
        Confidences(insightQuery.insights) = TableConfidences(insightQuery.data)

\* what the two servers do reply: the insights of the table's rules for
\* user_metrics, revenue_metrics and retention_metrics, and none for a
\* result of any other category
ApiInsightsFollowThreeRules ==
    RepliedWithInsights =>
        Confidences(insightQuery.insights)
            = IF Category(insightQuery.data)
                     \in {"user_metrics", "revenue_metrics", "retention_metrics"}
              THEN TableConfidences(insightQuery.data)
              ELSE << >>

\* the field the rule of the result's category reads is absent; a category
\* without a rule has no such field
TriggerAbsent(result) ==
    CASE Category(result) = "user_metrics" -> get(result, "growth_rate") = Undefined
      [] Category(result) = "revenue_metrics" ->
             get(result, "revenue_growth") = Undefined
      [] Category(result) = "retention_metrics" -> get(result, "topAction") = Undefined
      [] Category(result) = "onboarding_metrics" ->
             get(result, "dropOffRate") = Undefined
      [] Category(result) = "feature_adoption" -> get(result, "underused") = Undefined
      [] Category(result) = "product_health" -> get(result, "nps_score") = Undefined
      [] Category(result) = "competitive_metrics" -> WinRate(result) = Undefined
      [] OTHER -> TRUE

\* C19: synthesis never fails: for a record of any category in which the
\* field its rule reads (a nested one such as win_loss_analysis.win_rate
\* included) is absent, the synthesizer returns the empty list and raises
\* no error; so does the synthesis of the full analysis when its three
\* triggering fields are absent.
C19_AbsentTriggerYieldsEmptyList ==
    /\ (Generated /\ TriggerAbsent(call.input)) =>
           call.output = [threw |-> FALSE, value |-> << >>]
    /\ (Synthesized /\ NoTrigger(call.input)) =>
           get(call.output, "insights") = Arr(<< >>)

\* the failures are those of the competitive rule on a record whose
\* win_loss_analysis is missing or null, and no others
OnlyCompetitiveRuleThrows ==
    Generated =>
        (call.output.threw <=>
            /\ Category(call.input) = "competitive_metrics"
            /\ get(call.input, "win_loss_analysis").t \in {"undefined", "null"})

\* the confidence an insight of the analysis has before any outcome report
UnreportedConfidence(type) ==
    CASE type = "retention" -> Num(89, 2)
      [] type = "adoption" -> Num(85, 2)
      [] type = "onboarding" -> Num(92, 2)
\* some identifier has an implemented outcome on record
OutcomesTracked == \E id \in DOMAIN patterns : patterns[id].implemented > 0
\* this step is the return of an analysis
AnalysisReturns == analysis.pc = "query" /\ analysis'.pc = "done"

\* C20: the agent learns from implementation outcomes: an analysis that
\* returns after outcomes have been reported with trackOutcome carries an
\* insight whose confidence differs from the value it had before any
\* report.
C20_ReportedOutcomesChangeConfidence ==
    [][(AnalysisReturns /\ OutcomesTracked) =>
          \E i \in 1..Len(get(analysis'.result, "insights").items) :
              LET x == get(analysis'.result, "insights").items[i]
              IN  ~SameNumber(Confidence(x), UnreportedConfidence(TypeOf(x)))]_vars

\* whatever outcomes have been reported, every insight of every analysis has
\* the confidence it has without reports
ReportsNeverChangeConfidence ==
    AnalysisDone =>
        \A i \in 1..Len(ReturnedInsights) :
            SameNumber(Confidence(ReturnedInsights[i]),
                       UnreportedConfidence(TypeOf(ReturnedInsights[i])))

\* an analysis has returned while the run's reports, all of them
\* implemented, are on record
AnalysisAfterAllReports ==
    /\ AnalysisDone
    /\ received = MaxReports
    /\ \E id \in DOMAIN patterns : patterns[id].implemented = MaxReports

(***************************************************************************)
(* Properties of queries running side by side.                             *)
(***************************************************************************)
ReturnedCalls == {id \in DOMAIN inflight : inflight[id].pc = "returned"}
CompletedQueries == {i \in DOMAIN queryLog : queryLog[i].event = "completed"}
QueryOrAnalysisStep == inflight' # inflight \/ analysis' # analysis \/ queryLog' # queryLog

\* every returned call holds what its question gives when run alone
ReturnsAsAlone ==
    /\ \A id \in ReturnedCalls :
           inflight[id].result = processNaturalLanguageQuery(inflight[id].question)
    /\ \A i \in CompletedQueries :
           queryLog[i].result = processNaturalLanguageQuery(queryLog[i].question)

\* C21: under any interleaving of queries suspended at their delay, full
\* analyses and outcome reports, every query returns the category, the record
\* fields and the fallback flag it returns when run alone, the catalog is
\* never modified, and no step of a query or of an analysis changes the
\* pattern map.
C21_ConcurrentQueriesAreIndependent ==
    /\ []ReturnsAsAlone
    /\ [](catalog = mockBusinessData)
    /\ [][QueryOrAnalysisStep => patterns' = patterns]_vars

\* one call has returned a search result while another, asked a different
\* question, is still suspended, an analysis is under way and outcomes have
\* been reported
C21_Witness ==
    /\ inflight[1].pc = "returned"
    /\ get(inflight[1].result, "search_matched") = Bool(TRUE)
    /\ inflight[2].pc = "delay"
    /\ inflight[2].question # inflight[1].question
    /\ analysis.pc = "query"
    /\ Len(analysis.results) = 2
    /\ DOMAIN patterns # {}

(***************************************************************************)
(* Properties of the emits to the analytics client.                        *)
(***************************************************************************)
OperationReturned(kind) == operation.kind = kind /\ operation.pc = "returned"

\* the results of the three queries of an analysis, each run alone
AnalysisResultsAlone ==
    [k \in 1..Len(analysisQuestions) |-> processNaturalLanguageQuery(analysisQuestions[k])]
AnalysisAlone ==
    synthesizeInsights(Obj(<< <<"featureAdoption", AnalysisResultsAlone[1]>>,
                              <<"retentionDrivers", AnalysisResultsAlone[2]>>,
                              <<"dropOffPoints", AnalysisResultsAlone[3]>> >>))

\* the emit points of a completed operation, in program order
QueryEmitPoints(question) ==
    <<"coo_query_asked">> \o answerEvents(processNaturalLanguageQuery(question))
EmitPoints ==
    IF operation.kind = "query" THEN QueryEmitPoints(operation.input.s)
    ELSE IF operation.kind = "analysis"
    THEN <<"behavior_analysis_started">>
         \o QueryEmitPoints(analysisQuestions[1])
         \o QueryEmitPoints(analysisQuestions[2])
         \o QueryEmitPoints(analysisQuestions[3])
         \o <<"behavior_analysis_completed">>
         \o insightEvents(Len(get(AnalysisAlone, "insights").items))
    ELSE outcomeEvents(patterns[operation.input.insight_id])

\* the client is called once per emit point, or not at all without a token
OneAttemptPerEmit ==
    /\ operation.attempts = IF operation.configured THEN EmitPoints ELSE << >>
    /\ operation.failures <= Len(operation.attempts)

ReturnsAsWithoutFailure ==
    /\ OperationReturned("query") =>
           operation.returned = processNaturalLanguageQuery(operation.input.s)
    /\ OperationReturned("analysis") => operation.returned = AnalysisAlone
    /\ OperationReturned("trackOutcome") =>
           operation.returned = updateConfidence(patterns, operation.input.insight_id)

OutcomeReported == received' # received
ReportedArgs == operation'.input
ReportedResult ==
    Obj(<< <<"improved", ReportedArgs.improved>>,
           <<"actualImpact", Str("not_specified")>> >>)

\* C22: a failure of the analytics client during an emit of a query, a full
\* analysis or an outcome report is caught where it is emitted: the operation
\* never ends with the exception, it returns the value and leaves the pattern
\* map it would have without the failure, and the client is called exactly
\* once per emit, never a second time.
C22_ClientFailureIsContained ==
    /\ [](operation.kind # "none" => operation.pc # "threw")
    /\ [](operation.kind # "none" /\ operation.pc = "returned" =>
              ReturnsAsWithoutFailure /\ OneAttemptPerEmit)
    /\ [][OutcomeReported =>
              /\ operation'.pc = "returned"
              /\ patterns' = trackedPatterns(patterns, ReportedArgs.insight_id,
                                             ReportedArgs.implemented, ReportedResult)
              /\ operation'.returned = trackOutcome(patterns, ReportedArgs.insight_id,
                                                    ReportedArgs.implemented,
                                                    ReportedResult)]_vars

\* a full analysis has returned although the client threw on every emit
C22_Witness ==
    /\ OperationReturned("analysis")
    /\ operation.configured
    /\ Len(operation.attempts) > 3 * Len(analysisQuestions)
    /\ operation.failures = Len(operation.attempts)

\* an outcome report has returned although the client threw on both emits
TrackOutcomeSurvivesFailures ==
    /\ OperationReturned("trackOutcome")
    /\ operation.failures = 2
    /\ Len(operation.attempts) = 2

(***************************************************************************)
(* Properties of the validation of POST /api/track-outcome.                *)
(***************************************************************************)
\* the body lacks a field or holds a value of another type than documented
Malformed(body) ==
    \/ typeof(body.insight_id) # "string"
    \/ typeof(body.implemented) # "boolean"
    \/ typeof(body.improved) # "boolean"

\* the body the handler's own guard turns down
TurnedDown(body) ==
    \/ ~truthy(body.insight_id)
    \/ typeof(body.implemented) # "boolean"
    \/ typeof(body.improved) # "boolean"

Rejected == response' = [status |-> 400, error |-> requiredFieldsError]

\* C23: a track-outcome request whose insight_id is missing or not a string,
\* or whose implemented or improved is missing or not a boolean, is answered
\* with status 400 and the message naming the required fields, and leaves the
\* pattern map unchanged.
C23_MalformedReportIsRejected ==
    [][\A body \in ValidationBodies :
          Dispatched(body) /\ Malformed(body) =>
              Rejected /\ patterns' = patterns]_vars

\* what the handler does: it rejects, without touching the patterns, the
\* bodies with a falsy insight_id or a non-boolean flag, and no others
GuardRejectsFalsyIdOrNonBoolean ==
    [][\A body \in ValidationBodies :
          Dispatched(body) =>
              IF TurnedDown(body) THEN Rejected /\ patterns' = patterns
              ELSE patterns' # patterns /\ response' = response]_vars

\* a pattern has been stored under an insight_id that is not a string
NonStringIdentifierStored == \E id \in DOMAIN patterns : typeof(id) # "string"

(***************************************************************************)
(* Properties of get-metrics.                                              *)
(***************************************************************************)
ListedCategories == {listedCategories[i] : i \in 1..Len(listedCategories)}

\* the data answers the category: its type is the category, or, for 'all',
\* each of the three entries has the type it is keyed by
AnswersCategory(category, data) ==
    IF category = "all"
    THEN \A k \in 1..Len(allMetricsKeys) :
             get(get(data, allMetricsKeys[k]), "type") = Str(allMetricsKeys[k])
    ELSE get(data, "type") = Str(category)

RestMetricsReplied == metricsRequest.pc = "replied"
McpMetricsAnswered ==
    /\ toolCall.pc = "answered"
    /\ toolCall.name = "coo_get_metrics"
    /\ ~toolCall.answer.threw

\* get-metrics answers every category of the set C with data of its type
MetricsAnswered(C) ==
    /\ RestMetricsReplied /\ metricsRequest.category \in C =>
           AnswersCategory(metricsRequest.category, metricsRequest.data)
    /\ McpMetricsAnswered /\ toolCall.answer.value.category \in C =>
           AnswersCategory(toolCall.answer.value.category, toolCall.answer.value.data)

\* C24: for each of the twelve listed categories get-metrics (REST and MCP)
\* returns data whose type is the requested category, and for 'all' the
\* entries user_metrics, revenue_metrics and engagement_metrics hold results
\* of exactly those types.
C24_MetricsOfEveryListedCategory ==
    MetricsAnswered({"all"} \cup ListedCategories)

\* the categories whose question no rule of the classifier recognises
UnrecognisedCategories == {"feature_adoption", "conversion_metrics"}

\* 'all' and the ten other listed categories are answered with their data
OtherCategoriesAnswered ==
    MetricsAnswered({"all"} \cup (ListedCategories \ UnrecognisedCategories))

\* both paths have answered feature_adoption with the user metrics, found by
\* the catalog search
FeatureAdoptionAnsweredWithUserMetrics ==
    /\ RestMetricsReplied
    /\ metricsRequest.category = "feature_adoption"
    /\ get(metricsRequest.data, "type") = Str("user_metrics")
    /\ get(metricsRequest.data, "search_matched") = Bool(TRUE)
    /\ McpMetricsAnswered
    /\ toolCall.answer.value.category = "conversion_metrics"
    /\ get(toolCall.answer.value.data, "type") = Str("user_metrics")

(***************************************************************************)
(* Properties of get-insights.                                             *)
(***************************************************************************)
\* this step answers a get-insights request
RestInsightsReplied == insightsRequest' # insightsRequest
McpInsightsAnswered ==
    /\ toolCall' # toolCall
    /\ toolCall'.name = "coo_get_insights"
    /\ ~toolCall'.answer.threw

\* C25: the insights of a completed full analysis are stored in the agent's
\* insight list, and a get-insights request made after it (REST and MCP)
\* returns them: all of them without filters, and with filters exactly those
\* whose confidence is at least min_confidence and whose type is insight_type.
C25_AnalysisInsightsAreStoredAndReturned ==
    /\ [](AnalysisDone => storedInsights = ReturnedInsights)
    /\ [][AnalysisDone =>
              /\ RestInsightsReplied =>
                     insightsRequest'.insights =
                         selectInsights(ReturnedInsights,
                                        insightsRequest'.min_confidence,
                                        insightsRequest'.insight_type)
              /\ McpInsightsAnswered =>
                     toolCall'.answer.value.insights =
                         selectInsights(ReturnedInsights,
                                        toolCall'.answer.value.min_confidence,
                                        toolCall'.answer.value.insight_type)]_vars

\* what the servers do: the insight list is never written, and every
\* get-insights request is answered with no insight
InsightListStaysEmpty ==
    /\ storedInsights = << >>
    /\ insightsRequest.pc = "replied" => insightsRequest.insights = << >>
    /\ toolCall.pc = "answered" /\ toolCall.name = "coo_get_insights" =>
           toolCall.answer.value.insights = << >>

\* an unfiltered get-insights request on each path has been answered with no
\* insight after an analysis that returned three
EmptyAnswerAfterAnalysis ==
    /\ AnalysisDone
    /\ Len(ReturnedInsights) = 3
    /\ Len(queryLog) = 2 * Len(analysisQuestions)
    /\ insightsRequest.pc = "replied"
    /\ insightsRequest.min_confidence = Num(0, 0)
    /\ insightsRequest.insight_type = Null
    /\ insightsRequest.total_count = 0
    /\ toolCall.pc = "answered"
    /\ toolCall.args = Obj(<< >>)
    /\ toolCall.answer.value.total_count = 0

(***************************************************************************)
(* Properties of the CallTool request handler.                             *)
(***************************************************************************)
ToolAnswered == toolCall.pc = "answered"
Catalogued(name) == \E i \in 1..Len(toolCatalog) : toolCatalog[i] = name
AnsweredWithError(code) == toolCall.answer.threw /\ toolCall.answer.error.code = code

\* the exception the answered call met inside its handler
HandlerOutcome == dispatch(toolCall.name, toolCall.args, patterns, storedInsights)

\* an exception inside a catalogued tool's handler is answered with the
\* internal-error code and a message carrying the original one
HandlerExceptionIsInternalError ==
    ToolAnswered /\ Catalogued(toolCall.name) /\ toolCall.answer.threw =>
        /\ HandlerOutcome.threw
        /\ AnsweredWithError("InternalError")
        /\ includes(toolCall.answer.error.message, HandlerOutcome.error.message)

\* a call of a tool outside the catalog is answered with the method-not-found
\* code and the message 'Unknown tool: <name>'
UnknownToolIsMethodNotFound ==
    ToolAnswered /\ ~Catalogued(toolCall.name) =>
        /\ AnsweredWithError("MethodNotFound")
        /\ toolCall.answer.error.message = "Unknown tool: " \o toolCall.name

\* C26: a tool call naming a tool outside the five-tool catalog is answered
\* with the method-not-found code and the message 'Unknown tool: <name>',
\* while an exception raised inside a catalogued tool's handler is answered
\* with the internal-error code carrying the original message.
C26_UnknownToolAndHandlerErrors ==
    UnknownToolIsMethodNotFound /\ HandlerExceptionIsInternalError

\* what the handler does with a name outside the catalog: the error thrown by
\* the default case is caught by the handler's own catch and wrapped
UnknownToolIsWrapped ==
    ToolAnswered /\ ~Catalogued(toolCall.name) =>
        /\ AnsweredWithError("InternalError")
        /\ toolCall.answer.error.message =
               "Error executing tool " \o toolCall.name
               \o ": Unknown tool: " \o toolCall.name

\* a call without arguments has met a TypeError in a catalogued handler
HandlerExceptionAnswered ==
    /\ ToolAnswered
    /\ toolCall.name = "coo_get_metrics"
    /\ toolCall.args = Undefined
    /\ AnsweredWithError("InternalError")

(***************************************************************************)
(* The event-tracking agent                                                *)
(***************************************************************************)
PostOrUpload(event) == event.event \in {"post_created", "file_uploaded"}
AgentMetricsAnswered == answer.fn = "getMetrics"
AllUsersAnalysed == answer.fn = "analyzeUserBehavior" /\ ~truthy(answer.userId)

\* C27: the event-tracking agent tracks only post and upload events: every
\* event in its store is a post_created or file_uploaded event, getMetrics()
\* reports totalEvents = posts + uploads, and so does the analysis of all
\* users.
C27_OnlyPostAndUploadEvents ==
    /\ \A i \in 1..Len(events) : PostOrUpload(events[i])
    /\ AgentMetricsAnswered =>
           answer.returned.totalEvents = answer.returned.posts + answer.returned.uploads
    /\ AllUsersAnalysed =>
           answer.returned.metrics.totalEvents =
               answer.returned.metrics.posts + answer.returned.metrics.uploads

\* what the agent does: the store starts with the constructor's
\* analytics_agent_initialized event, and the totals count it
TotalsCountInitializedEvent ==
    /\ events[1].event = "analytics_agent_initialized"
    /\ \A i \in 2..Len(events) : PostOrUpload(events[i])
    /\ AgentMetricsAnswered =>
           answer.returned.totalEvents =
               answer.returned.posts + answer.returned.uploads + 1
    /\ AllUsersAnalysed =>
           answer.returned.metrics.totalEvents =
               answer.returned.metrics.posts + answer.returned.metrics.uploads + 1

\* getMetrics() has answered three events after one post and one upload
MetricsCountThreeForTwo ==
    /\ AgentMetricsAnswered
    /\ answer.returned.posts = 1
    /\ answer.returned.uploads = 1
    /\ answer.returned.totalEvents = 3

NothingTrackedFor(userId) ==
    IF truthy(userId)
    THEN \A i \in 1..Len(events) : PostOrUpload(events[i]) => events[i].user_id # userId
    ELSE \A i \in 1..Len(events) : ~PostOrUpload(events[i])
emptyAnalysis ==
    [insights |-> << >>,
     summary |-> [message |-> "No post or upload events tracked yet"],
     metrics |-> [totalEvents |-> 0, uniqueUsers |-> 0, posts |-> 0, uploads |-> 0]]
Analysed == answer.fn = "analyzeUserBehavior"

\* C28: when no post or upload event has been tracked for the requested user
\* (for anyone when no user is given), analyzeUserBehavior returns no insight,
\* the summary message 'No post or upload events tracked yet' and metrics
\* totalEvents 0, uniqueUsers 0, posts 0, uploads 0.
C28_EmptyAnalysisWithoutEvents ==
    Analysed /\ NothingTrackedFor(answer.userId) => answer.returned = emptyAnalysis

\* what the agent does: the empty analysis is returned for a named user
\* without events, and never when no user is given
EmptyAnalysisForNamedUserOnly ==
    Analysed =>
        IF truthy(answer.userId)
        THEN NothingTrackedFor(answer.userId) <=> answer.returned = emptyAnalysis
        ELSE answer.returned # emptyAnalysis

\* nothing tracked and no user given: the analysis counts the initialization
\* event and a null user, and holds a timing insight
InitializedEventAnalysed ==
    /\ Analysed
    /\ ~truthy(answer.userId)
    /\ Len(events) = 1
    /\ answer.returned.metrics.totalEvents = 1
    /\ answer.returned.metrics.uniqueUsers = 1
    /\ answer.returned.metrics.posts = 0
    /\ answer.returned.metrics.uploads = 0
    /\ Len(answer.returned.insights) = 1
    /\ answer.returned.insights[1].type = "timing"

\* a named user without events is answered with the empty analysis while
\* another user has events
NamedUserWithoutEventsAnalysed ==
    /\ Analysed
    /\ truthy(answer.userId)
    /\ Len(events) > 1
    /\ NothingTrackedFor(answer.userId)
    /\ answer.returned = emptyAnalysis

sessionIdOf(event) == get(event.properties, "session_id").s
startsWith(s, prefix) ==
    Len(s) >= Len(prefix) /\ SubSeq(s, 1, Len(prefix)) = prefix
Tracked(event) == PostOrUpload(event)
FirstEventOf(i) ==
    \A j \in 1..(i - 1) : events[j].user_id # events[i].user_id

\* C29: every event tracked with a non-null userId, the user's first event
\* included, carries the session id session_<userId>_<timestamp>; only events
\* tracked without a user carry an anonymous_ session id.
C29_SessionIdNamesTheUser ==
    \A i \in 1..Len(events) :
        Tracked(events[i]) =>
            IF events[i].user_id # Null
            THEN sessionIdOf(events[i]) =
                     "session_" \o events[i].user_id.s \o "_"
                     \o NatToString(events[i].timestamp)
            ELSE startsWith(sessionIdOf(events[i]), "anonymous_")

\* what the agent does: a user's first event is built before the profile
\* exists and carries an anonymous id; the later ones name the user
FirstEventIsAnonymous ==
    \A i \in 1..Len(events) :
        IF events[i].user_id # Null /\ ~FirstEventOf(i)
        THEN sessionIdOf(events[i]) =
                 "session_" \o events[i].user_id.s \o "_"
                 \o NatToString(events[i].timestamp)
        ELSE startsWith(sessionIdOf(events[i]), "anonymous_")

\* a user's first event is stored with an anonymous id and the second with
\* the user's session id
AnonymousThenSession ==
    \E i, j \in 1..Len(events) :
        /\ i < j
        /\ events[i].user_id = Str("user123")
        /\ events[j].user_id = Str("user123")
        /\ FirstEventOf(i)
        /\ startsWith(sessionIdOf(events[i]), "anonymous_")
        /\ sessionIdOf(events[j]) = "session_user123_" \o NatToString(events[j].timestamp)

TrackedUserIds == {events[i].user_id : i \in 1..Len(events)} \ {Null}
StoreOnlyGrows ==
    /\ Len(events') >= Len(events)
    /\ SubSeq(events', 1, Len(events)) = events
ProfileMatchesStore(userId) ==
    /\ userId \in DOMAIN users
    /\ users[userId].posts = countEvents(eventsOf(events, userId), "post_created")
    /\ users[userId].uploads = countEvents(eventsOf(events, userId), "file_uploaded")
    /\ users[userId].events = eventsOf(events, userId)

\* C30: after any sequence of trackPost and trackUpload calls the event store
\* has only grown at its end (no event removed or reordered), and for every
\* tracked userId the profile's posts and uploads counters equal the numbers
\* of that user's post_created and file_uploaded events in the store and the
\* profile's event list is that user's events in tracking order.
C30_StoreAppendOnlyAndProfilesMatch ==
    /\ [][StoreOnlyGrows]_vars
    /\ [](\A userId \in TrackedUserIds : ProfileMatchesStore(userId))
    /\ [](DOMAIN users = TrackedUserIds)

\* two users tracked in turn: user123 has a post and an upload around a post
\* of ana, and both profiles hold their own events
C30_Witness ==
    /\ Len(events) = 4
    /\ events[2].user_id = Str("user123") /\ events[2].event = "post_created"
    /\ events[3].user_id = Str("ana")
    /\ events[4].user_id = Str("user123") /\ events[4].event = "file_uploaded"
    /\ users[Str("user123")].posts = 1
    /\ users[Str("user123")].uploads = 1
    /\ users[Str("user123")].events = <<events[2], events[4]>>
    /\ users[Str("ana")].events = <<events[3]>>

====
